---------------------------- MODULE Spec2Model ----------------------------
(***************************************************************************)
(* Model of the delta-based scoring and weight-publication pipeline of     *)
(* validator/weights.py: the Delta Engine (_get_delta_node_data), the      *)
(* Score Transform (apply_kurtosis_custom), the Weight Calculator          *)
(* (calculate_weights) and the Publisher (set_weights).                    *)
(*                                                                         *)
(* Python values are modelled as follows.  None is the integer NoneVal.    *)
(* metagraph.nodes, a dict keyed by hotkey, is a sequence of               *)
(* [hotkey, node_id] entries in insertion order with distinct hotkeys.     *)
(* The telemetry store is a function from hotkey to the sequence of        *)
(* snapshots it returns for that hotkey.  A NodeData carries the fields    *)
(* the pipeline reads (hotkey, uid, timestamp and the three scored         *)
(* counters); the nine other counters are built by the same                *)
(* latest - oldest expression and are read by nothing in the pipeline.     *)
(* Floats are fixed-point integers with Scale units per 1.0.               *)
(***************************************************************************)
EXTENDS Integers, Sequences, FiniteSets, TLC

VARIABLES
    nodes,                \* validator.metagraph.nodes
    telemetry,            \* validator.telemetry_storage contents
    pc,                   \* position of set_weights
    substrate,            \* validator.substrate: generation of the connection handle
    validator_node_id,    \* local of set_weights
    blocks_since_update,  \* local of set_weights
    min_interval,         \* local of set_weights
    data_to_score,        \* local of set_weights
    uids,                 \* local of set_weights
    scores,               \* local of set_weights
    attempt,              \* loop variable of set_weights
    checks,               \* interval checks of the current cycle
    sleeps,               \* asyncio.sleep calls of the current cycle, in order
    submissions,          \* weights.set_node_weights calls of the current cycle, in order
    reports,              \* node_manager.send_score_report calls of the current cycle
    exc,                  \* the exception that escaped set_weights, "" if none
    cycles,               \* number of set_weights invocations so far
    steps,                \* the calls of the current cycle, in order
    tasks,                \* the locals of each of two overlapping set_weights invocations
    ledger,               \* the chain: block height, block of the last accepted update
    fn_pc,                \* position of the function harness
    fn_records,           \* argument delta_node_data of calculate_weights
    fn_simulation,        \* argument simulation of calculate_weights
    fn_x,                 \* argument x of apply_kurtosis_custom
    fn_result             \* value returned (or exception raised) by the function under test

vars == <<nodes, telemetry, pc, substrate, validator_node_id, blocks_since_update,
          min_interval, data_to_score, uids, scores, attempt, checks, sleeps,
          submissions, reports, exc, cycles, steps, tasks, ledger, fn_pc, fn_records,
          fn_simulation, fn_x, fn_result>>

envVars == <<nodes, telemetry>>
overlapVars == <<tasks, ledger>>
cycleVars == <<pc, substrate, validator_node_id, blocks_since_update, min_interval,
               data_to_score, uids, scores, attempt, checks, sleeps, submissions,
               reports, exc, cycles, steps>>
fnVars == <<fn_pc, fn_records, fn_simulation, fn_x, fn_result>>

-----------------------------------------------------------------------------
(* Bounds of the model *)

MaxSnaps == 3
MaxBlocks == 21
MaxMinInterval == 20
MaxCycles == 2
MaxRecords == 3
MaxLen == 4
MaxMetric == 6
MaxDrop == 3

(* Python's None *)
NoneVal == -1

Hotkeys == {"val", "m1", "x1"}
ValidatorHotkey == "val"
TelemetryHotkeys == {"m1", "x1"}
Timestamps == {1, 2}
(* (uid, counters) of a stored snapshot; counters are (web_success,
   twitter_returned_tweets, twitter_returned_profiles) *)
SnapshotProfiles == {<<0, <<5, 3, 0>>>>, <<2, <<10, 3, 4>>>>}
(* (hotkey, uid) and counters of a record handed to calculate_weights *)
RecordIdentities == {<<"m1", 1>>, <<"m1", 0>>, <<"x1", 0>>, <<"x1", NoneVal>>}
RecordCounters == {<<0, 0, 0>>, <<10, 0, 0>>, <<5, 3, 1>>}
(* web_success deltas of the three-node calls *)
RankValues == {0, 1, 5, 10}
(* Values of a metric array: a delta is negative, down to -MaxDrop, when a
   counter was reset *)
MetricValues == (0 - MaxDrop) .. MaxMetric

-----------------------------------------------------------------------------
(* Sequence helpers *)

Range(s) == {s[i] : i \in 1 .. Len(s)}

NoDuplicates(s) == \A i, j \in 1 .. Len(s) : i # j => s[i] # s[j]

(* The sequence s with its elements evaluated *)
Tuple(s) == s \o <<>>

SeqsUpTo(S, n) == UNION {[1 .. k -> S] : k \in 0 .. n}

-----------------------------------------------------------------------------
(* NodeData *)

NodeData(hotkey, uid, timestamp, web_success, tweets, profiles) ==
    [hotkey |-> hotkey, uid |-> uid, timestamp |-> timestamp,
     web_success |-> web_success,
     twitter_returned_tweets |-> tweets,
     twitter_returned_profiles |-> profiles]

(* The record built for a hotkey with insufficient or no telemetry *)
EmptyTelemetry(hotkey, uid) == NodeData(hotkey, uid, 0, 0, 0, 0)

IsZeroRecord(r) ==
    /\ r.timestamp = 0
    /\ r.web_success = 0
    /\ r.twitter_returned_tweets = 0
    /\ r.twitter_returned_profiles = 0

-----------------------------------------------------------------------------
(* Node Registry: metagraph.nodes *)

RegistryHotkeys(ns) == {ns[i].hotkey : i \in 1 .. Len(ns)}

HasNode(ns, hotkey) == hotkey \in RegistryHotkeys(ns)

(* metagraph.nodes[hotkey].node_id, for a hotkey of the registry *)
NodeIdOf(ns, hotkey) ==
    ns[CHOOSE i \in 1 .. Len(ns) : ns[i].hotkey = hotkey].node_id

-----------------------------------------------------------------------------
(* Delta Engine: WeightsManager._get_delta_node_data *)

(* all_hotkeys: the (node_id, hotkey) pairs of the registry, in its order *)
AllHotkeys(ns) == [i \in 1 .. Len(ns) |-> <<ns[i].node_id, ns[i].hotkey>>]

(* Mutant: next(...) without the default 0 gives no uid *)
FindUidNone(all_hotkeys, hotkey) ==
    LET hits == {i \in 1 .. Len(all_hotkeys) : all_hotkeys[i][2] = hotkey}
    IN  IF hits = {} THEN NoneVal
        ELSE all_hotkeys[CHOOSE i \in hits : \A j \in hits : i <= j][1]

(* next((uid for uid, hk in all_hotkeys if hk == hotkey), 0) *)
FindUid(all_hotkeys, hotkey) ==
    LET hits == {i \in 1 .. Len(all_hotkeys) : all_hotkeys[i][2] = hotkey}
    IN  IF hits = {} THEN 0
        ELSE all_hotkeys[CHOOSE i \in hits : \A j \in hits : i <= j][1]

(* sorted(node_telemetry, key=lambda x: x.timestamp, reverse=True): a stable
   sort, so snapshots of equal timestamp keep the order of the store *)
RECURSIVE SortedDesc(_)
SortedDesc(s) ==
    IF Len(s) = 0 THEN <<>>
    ELSE LET init == SortedDesc(SubSeq(s, 1, Len(s) - 1))
             x == s[Len(s)]
             before == SelectSeq(init, LAMBDA e : e.timestamp >= x.timestamp)
             after == SelectSeq(init, LAMBDA e : e.timestamp < x.timestamp)
         IN  before \o <<x>> \o after

MinSnapshots == 2

(* Mutant: a negative difference is clamped to 0 *)
DeltaOfClamped(hotkey, node_telemetry) ==
    LET sorted_telemetry == SortedDesc(node_telemetry)
        latest == sorted_telemetry[1]
        oldest == sorted_telemetry[Len(sorted_telemetry)]
        Clamp(v) == IF v < 0 THEN 0 ELSE v
    IN  NodeData(hotkey, latest.uid, latest.timestamp,
                 Clamp(latest.web_success - oldest.web_success),
                 Clamp(latest.twitter_returned_tweets
                           - oldest.twitter_returned_tweets),
                 Clamp(latest.twitter_returned_profiles
                           - oldest.twitter_returned_profiles))

(* The delta record of a hotkey with at least MinSnapshots snapshots *)
DeltaOf(hotkey, node_telemetry) ==
    LET sorted_telemetry == SortedDesc(node_telemetry)
        latest == sorted_telemetry[1]
        oldest == sorted_telemetry[Len(sorted_telemetry)]
    IN  NodeData(hotkey, latest.uid, latest.timestamp,
                 latest.web_success - oldest.web_success,
                 latest.twitter_returned_tweets - oldest.twitter_returned_tweets,
                 latest.twitter_returned_profiles - oldest.twitter_returned_profiles)

(* Mutant: a single snapshot is taken for a delta *)
ScoredRecordFromOne(hotkey, node_telemetry, all_hotkeys) ==
    IF Len(node_telemetry) >= 1
    THEN DeltaOf(hotkey, node_telemetry)
    ELSE EmptyTelemetry(hotkey, FindUid(all_hotkeys, hotkey))

(* One pass of the loop over hotkeys_to_score *)
ScoredRecord(hotkey, node_telemetry, all_hotkeys) ==
    IF Len(node_telemetry) >= MinSnapshots
    THEN DeltaOf(hotkey, node_telemetry)
    ELSE EmptyTelemetry(hotkey, FindUid(all_hotkeys, hotkey))

(* Mutant: the loop over all_hotkeys does not test processed_hotkeys *)
UnprocessedRecordsAll(all_hotkeys, processed_hotkeys) ==
    [i \in 1 .. Len(all_hotkeys) |->
        EmptyTelemetry(all_hotkeys[i][2], all_hotkeys[i][1])]

(* Mutant: the hotkeys without telemetry get no record *)
UnprocessedRecordsNone(all_hotkeys, processed_hotkeys) == <<>>

(* The loop over all_hotkeys adding the hotkeys not processed yet *)
UnprocessedRecords(all_hotkeys, processed_hotkeys) ==
    LET rest == SelectSeq(all_hotkeys, LAMBDA p : p[2] \notin processed_hotkeys)
    IN  [i \in 1 .. Len(rest) |-> EmptyTelemetry(rest[i][2], rest[i][1])]

(* hotkeys_to_score is what get_all_hotkeys_with_telemetry returned, tel what
   get_telemetry_by_hotkey returns for each hotkey *)
GetDeltaNodeData(ns, hotkeys_to_score, tel) ==
    LET all_hotkeys == AllHotkeys(ns)
        scored == [i \in 1 .. Len(hotkeys_to_score) |->
                      ScoredRecord(hotkeys_to_score[i], tel[hotkeys_to_score[i]],
                                   all_hotkeys)]
        processed_hotkeys == Range(hotkeys_to_score)
    IN  scored \o UnprocessedRecords(all_hotkeys, processed_hotkeys)

-----------------------------------------------------------------------------
(* Fixed-point arithmetic: a float v is the integer nearest to v * Scale *)

Scale == 10 * 10 * 10

(* a / b rounded to the nearest integer, for b > 0 *)
RoundDiv(a, b) == (2 * a + b) \div (2 * b)

Abs(a) == IF a < 0 THEN 0 - a ELSE a

SumSeq(s) ==
    LET RECURSIVE Sum(_)
        Sum(i) == IF i = 0 THEN 0 ELSE s[i] + Sum(i - 1)
    IN  Sum(Len(s))

MinOf(S) == CHOOSE v \in S : \A w \in S : v <= w

MaxOf(S) == CHOOSE v \in S : \A w \in S : v >= w

MinSeq(s) == MinOf(Range(s))

MaxSeq(s) == MaxOf(Range(s))

(* Ascending sort of a sequence of integers *)
RECURSIVE SortedAsc(_)
SortedAsc(s) ==
    IF Len(s) = 0 THEN <<>>
    ELSE LET init == SortedAsc(SubSeq(s, 1, Len(s) - 1))
             x == s[Len(s)]
         IN  SelectSeq(init, LAMBDA e : e <= x) \o <<x>>
                 \o SelectSeq(init, LAMBDA e : e > x)

(* floor(sqrt(n)) for n >= 0 *)
ISqrt(n) ==
    LET RECURSIVE Bisect(_, _)
        Bisect(lo, hi) ==
            IF lo >= hi THEN lo
            ELSE LET mid == (lo + hi + 1) \div 2
                 IN  IF mid * mid <= n THEN Bisect(mid, hi) ELSE Bisect(lo, mid - 1)
    IN  Bisect(0, 46340)

ExpTerms == 12

(* e^z for a fixed-point z: Taylor series on [0, 1], halving above it,
   reciprocal below 0 *)
RECURSIVE Exp(_)
Exp(z) ==
    IF z < 0 THEN RoundDiv(Scale * Scale, Exp(0 - z))
    ELSE IF z > Scale
         THEN LET h == Exp(z \div 2)
                  odd == Exp(z - 2 * (z \div 2))
              IN  RoundDiv(RoundDiv(h * h, Scale) * odd, Scale)
         ELSE LET RECURSIVE Series(_, _)
                  Series(k, term) ==
                      IF k > ExpTerms \/ term = 0 THEN 0
                      ELSE term + Series(k + 1, RoundDiv(term * z, k * Scale))
              IN  Series(1, Scale)

(* Mutant: the exponent has lost its minus sign *)
SigmoidFlipped(z) == RoundDiv(Scale * Scale, Scale + Exp(z))

(* 1 / (1 + exp(-z)) *)
Sigmoid(z) == RoundDiv(Scale * Scale, Scale + Exp(0 - z))

(* np.tanh *)
Tanh(x) ==
    LET e2 == Exp(2 * Abs(x))
        t == RoundDiv((e2 - Scale) * Scale, e2 + Scale)
    IN  IF x < 0 THEN 0 - t ELSE t

-----------------------------------------------------------------------------
(* Score Transform: apply_kurtosis_custom with its default parameters.  The
   input x is a sequence of integer-valued floats, the output a sequence of
   fixed-point values. *)

TopPercentile == 90
Steepness == 2
RewardFactor == (4 * Scale) \div 10
CenterSensitivity == (5 * Scale) \div 10
BoostFactor == (2 * Scale) \div 10

SqrtScale == 10 * 10

(* (x - np.mean(x)) / (np.std(x) + 1e-8): with n = len(x) and
   d[i] = n * x[i] - sum(x), this is d[i] / sqrt(sum(d^2) / n); when every
   d[i] is 0 the quotient is 0 / 1e-8 = 0.  sd is sqrt(sum(d^2) / n) in units
   of 1 / SqrtScale. *)
CenteredBy(d, sd) ==
    Tuple([i \in 1 .. Len(d) |->
              IF d[i] = 0 \/ sd = 0 THEN 0
              ELSE RoundDiv(d[i] * Scale * SqrtScale, sd)])

Deviations(x, total) == Tuple([i \in 1 .. Len(x) |-> Len(x) * x[i] - total])

Squares(d) == Tuple([i \in 1 .. Len(d) |-> d[i] * d[i]])

StdOf(d) == ISqrt((SumSeq(Squares(d)) * SqrtScale * SqrtScale) \div Len(d))

CenteredFrom(d) == CenteredBy(d, StdOf(d))

Centered(x) == CenteredFrom(Deviations(x, SumSeq(x)))

(* top_mask = x >= np.percentile(x, top_percentile), the percentile taken by
   linear interpolation between the two nearest ranks; compared exactly, both
   sides multiplied by 100 *)
Threshold100(s) ==
    LET n == Len(s)
        rank == TopPercentile * (n - 1)
        lo == rank \div 100
        frac == rank % 100
        hi == IF lo + 2 <= n THEN lo + 2 ELSE n
    IN  100 * s[lo + 1] + frac * (s[hi] - s[lo + 1])

AtLeast(x, threshold100) == Tuple([i \in 1 .. Len(x) |-> 100 * x[i] >= threshold100])

TopMask(x) == AtLeast(x, Threshold100(SortedAsc(x)))

(* y = 1 / (1 + np.exp(-steepness * (x_centered - center_sensitivity)))
   y += boost_factor * np.tanh(x_centered) *)
Shaped(x_centered) ==
    Tuple([i \in 1 .. Len(x_centered) |->
              Sigmoid(Steepness * (x_centered[i] - CenterSensitivity))
                  + RoundDiv(BoostFactor * Tanh(x_centered[i]), Scale)])

(* y[top_mask] *= 1 + reward_factor *)
Rewarded(y, top_mask) ==
    Tuple([i \in 1 .. Len(y) |->
              IF top_mask[i] THEN RoundDiv(y[i] * (Scale + RewardFactor), Scale)
              ELSE y[i]])

(* Mutant: an array without spread is left as it is *)
NormalizeBetweenOrKeep(y, lo, hi) ==
    Tuple([i \in 1 .. Len(y) |->
              IF hi = lo THEN y[i] ELSE RoundDiv((y[i] - lo) * Scale, hi - lo)])

(* (y - np.min(y)) / (np.max(y) - np.min(y) + 1e-8) *)
NormalizeBetween(y, lo, hi) ==
    Tuple([i \in 1 .. Len(y) |->
              IF hi = lo THEN 0 ELSE RoundDiv((y[i] - lo) * Scale, hi - lo)])

(* Mutant: the normalization is left out *)
NotNormalized(y) == y

MinMaxNormalize(y) == NormalizeBetween(y, MinSeq(y), MaxSeq(y))

AllZero(x) == \A i \in 1 .. Len(x) : x[i] = 0

(* Mutant: the early return gives ones *)
OnesLike(x) == Tuple([i \in 1 .. Len(x) |-> Scale])

(* np.zeros_like(x) *)
ZerosLike(x) == Tuple([i \in 1 .. Len(x) |-> 0])

apply_kurtosis_custom(x) ==
    IF Len(x) = 0 \/ AllZero(x) THEN ZerosLike(x)
    ELSE MinMaxNormalize(Rewarded(Shaped(Centered(x)), TopMask(x)))

-----------------------------------------------------------------------------
(* Weight Calculator: WeightsManager.calculate_weights *)

(* What one call of node_manager.send_score_report does: it returns, raises
   KeyError, or raises another exception *)
ReportOutcomes == {"ok", "KeyError", "Exception"}

(* Mutant: a hotkey the registry does not know is given slot id 0, as the
   Delta Engine does *)
ResolveUidDefaultZero(node, simulation, ns) ==
    IF simulation THEN [found |-> TRUE, uid |-> node.uid]
    ELSE IF HasNode(ns, node.hotkey)
         THEN [found |-> TRUE, uid |-> NodeIdOf(ns, node.hotkey)]
         ELSE [found |-> TRUE, uid |-> 0]

(* The uid of the record at one pass of the scoring loop; NoneVal when the
   record has none; "found" is FALSE when the registry lookup raises KeyError *)
ResolveUid(node, simulation, ns) ==
    IF simulation THEN [found |-> TRUE, uid |-> node.uid]
    ELSE IF HasNode(ns, node.hotkey)
         THEN [found |-> TRUE, uid |-> NodeIdOf(ns, node.hotkey)]
         ELSE [found |-> FALSE, uid |-> NoneVal]

(* Mutant: an entry already present is kept *)
DictSetFirstWins(d, key, value) ==
    [k \in DOMAIN d \cup {key} |-> IF k \in DOMAIN d THEN d[k] ELSE value]

(* miner_scores[uid] = score *)
DictSet(d, key, value) ==
    [k \in DOMAIN d \cup {key} |-> IF k = key THEN value ELSE d[k]]

EmptyDict == [k \in {} |-> 0]

(* Mutant: the sum of the three values is not divided by 3 *)
CombinedScoreSum(web_successes, tweets, profiles, idx) ==
    web_successes[idx] + tweets[idx] + profiles[idx]

(* float((web_successes[idx] + tweets[idx] + profiles[idx]) / 3) *)
CombinedScore(web_successes, tweets, profiles, idx) ==
    RoundDiv(web_successes[idx] + tweets[idx] + profiles[idx], 3)

(* True when the except clause of the scoring loop catches what the score
   report raised *)
ReportCaught(outcome) == outcome = "KeyError"

(* The registry lookups made so far, with the one of this pass: only the
   else branch of "if simulation" reads metagraph.nodes *)
LookedUp(lookups, node, simulation) ==
    IF simulation THEN lookups ELSE Append(lookups, node.hotkey)

(* One pass of the scoring loop; st is [miner_scores, reports, lookups,
   raised] and outcome what send_score_report does if it is called *)
ScoreStep(st, node, score, simulation, ns, outcome) ==
    LET r == ResolveUid(node, simulation, ns)
    IN  IF ~r.found \/ r.uid = NoneVal
        THEN [st EXCEPT !.lookups = LookedUp(st.lookups, node, simulation)]
        ELSE [miner_scores |-> DictSet(st.miner_scores, r.uid, score),
              reports |-> Append(st.reports,
                                 [hotkey |-> node.hotkey, score |-> score]),
              lookups |-> LookedUp(st.lookups, node, simulation),
              raised |-> outcome # "ok" /\ ~ReportCaught(outcome)]

(* sorted(miner_scores.keys(), key=...): the uids are integers, which the key
   leaves as they are *)
SortedKeys(d) ==
    LET RECURSIVE Asc(_)
        Asc(S) == IF S = {} THEN <<>>
                  ELSE LET m == CHOOSE v \in S : \A w \in S : v <= w
                       IN  <<m>> \o Asc(S \ {m})
    IN  Asc(DOMAIN d)

(* Mutant: the weights are not put in the order of the sorted uids *)
WeightsReversed(d, sorted_uids) ==
    [i \in 1 .. Len(sorted_uids) |-> d[sorted_uids[Len(sorted_uids) + 1 - i]]]

(* [float(miner_scores[uid]) for uid in uids] *)
WeightsOf(d, sorted_uids) == [i \in 1 .. Len(sorted_uids) |-> d[sorted_uids[i]]]

(* apply_kurtosis_custom applied to each of the three metric arrays *)
Transforms(delta_node_data) ==
    LET n == Len(delta_node_data)
    IN  [web_successes |->
             apply_kurtosis_custom(
                 Tuple([i \in 1 .. n |-> delta_node_data[i].web_success])),
         tweets |->
             apply_kurtosis_custom(
                 Tuple([i \in 1 .. n |-> delta_node_data[i].twitter_returned_tweets])),
         profiles |->
             apply_kurtosis_custom(
                 Tuple([i \in 1 .. n |-> delta_node_data[i].twitter_returned_profiles]))]

(* Mutant: the empty input is not returned early *)
ReturnsEarlyNever(delta_node_data) == FALSE

(* if not delta_node_data: return [], [] *)
ReturnsEarly(delta_node_data) == Len(delta_node_data) = 0

(* The number of calls of apply_kurtosis_custom the call has made once it is
   past the early return *)
TransformCalls == 3

(* The call from the transformed arrays t on; report[i] is what
   send_score_report does for the record at index i.  The result is
   [raised, uids, weights, reports, lookups, transforms]: raised is TRUE when
   an exception left calculate_weights, and then nothing is returned; reports
   are the score reports sent, lookups the hotkeys looked up in the registry
   and transforms the number of calls of apply_kurtosis_custom. *)
Calculated(delta_node_data, t, simulation, ns, report) ==
    LET n == Len(delta_node_data)
        RECURSIVE Loop(_, _)
        Loop(idx, st) ==
            IF idx > n \/ st.raised THEN st
            ELSE Loop(idx + 1,
                      ScoreStep(st, delta_node_data[idx],
                                CombinedScore(t.web_successes, t.tweets, t.profiles,
                                              idx),
                                simulation, ns, report[idx]))
        final == Loop(1, [miner_scores |-> EmptyDict, reports |-> <<>>,
                          lookups |-> <<>>, raised |-> FALSE])
        sorted_uids == SortedKeys(final.miner_scores)
    IN  IF ReturnsEarly(delta_node_data)
        THEN [raised |-> FALSE, uids |-> <<>>, weights |-> <<>>, reports |-> <<>>,
              lookups |-> <<>>, transforms |-> 0]
        ELSE IF final.raised
             THEN [raised |-> TRUE, uids |-> <<>>, weights |-> <<>>,
                   reports |-> final.reports, lookups |-> final.lookups,
                   transforms |-> TransformCalls]
             ELSE [raised |-> FALSE, uids |-> sorted_uids,
                   weights |-> WeightsOf(final.miner_scores, sorted_uids),
                   reports |-> final.reports, lookups |-> final.lookups,
                   transforms |-> TransformCalls]

calculate_weights(delta_node_data, simulation, ns, report) ==
    Calculated(delta_node_data, Transforms(delta_node_data), simulation, ns, report)

-----------------------------------------------------------------------------
(* Inputs: registries and telemetry stores *)

Snapshot(hotkey, uid, timestamp, counters) ==
    NodeData(hotkey, uid, timestamp, counters[1], counters[2], counters[3])

SnapshotsOf(hotkey) ==
    {Snapshot(hotkey, p[1], t, p[2]) : t \in Timestamps, p \in SnapshotProfiles}

Histories(hotkey) == SeqsUpTo(SnapshotsOf(hotkey), MaxSnaps)

(* Stores in which the hotkeys of TelemetryHotkeys have up to MaxSnaps
   snapshots each *)
Stores ==
    {[h \in Hotkeys |-> IF h = "m1" THEN a ELSE IF h = "x1" THEN b ELSE <<>>] :
        a \in Histories("m1"), b \in Histories("x1")}

(* metagraph.nodes: distinct hotkeys in any order, the slot ids given in that
   order *)
Registries ==
    {[i \in 1 .. Len(l) |-> [hotkey |-> l[i], node_id |-> i - 1]] :
        l \in {k \in SeqsUpTo(Hotkeys, Cardinality(Hotkeys)) : NoDuplicates(k)}}

CalcRecords ==
    {NodeData(id[1], id[2], 0, c[1], c[2], c[3]) :
        id \in RecordIdentities, c \in RecordCounters}

(* What get_all_hotkeys_with_telemetry returns: each hotkey that has a
   snapshot, once, in any order *)
Listings(tel) ==
    LET with == {h \in DOMAIN tel : Len(tel[h]) > 0}
    IN  {l \in SeqsUpTo(with, Cardinality(with)) :
            Len(l) = Cardinality(with) /\ Range(l) = with}

NoTelemetry == [h \in Hotkeys |-> <<>>]

CycleRegistries ==
    {<<[hotkey |-> "val", node_id |-> 0], [hotkey |-> "m1", node_id |-> 1]>>,
     <<[hotkey |-> "m1", node_id |-> 2], [hotkey |-> "val", node_id |-> 1],
       [hotkey |-> "x1", node_id |-> 0]>>,
     <<[hotkey |-> "m1", node_id |-> 0]>>}

CalcRegistries ==
    {<<[hotkey |-> "val", node_id |-> 0], [hotkey |-> "m1", node_id |-> 1]>>,
     <<[hotkey |-> "m1", node_id |-> 2], [hotkey |-> "val", node_id |-> 1],
       [hotkey |-> "x1", node_id |-> 0]>>}

CycleStores ==
    {NoTelemetry,
     [NoTelemetry EXCEPT
        !["m1"] = <<Snapshot("m1", 2, 1, <<5, 3, 0>>),
                    Snapshot("m1", 2, 2, <<10, 3, 4>>)>>,
        !["x1"] = <<Snapshot("x1", 0, 1, <<0, 0, 0>>)>>],
     [NoTelemetry EXCEPT
        !["val"] = <<Snapshot("val", 1, 2, <<10, 0, 4>>),
                     Snapshot("val", 1, 1, <<0, 0, 0>>)>>,
        !["x1"] = <<Snapshot("x1", 0, 1, <<0, 0, 0>>),
                    Snapshot("x1", 0, 2, <<5, 3, 0>>)>>]}

-----------------------------------------------------------------------------
(* Publisher: WeightsManager.set_weights *)

(* Mutant: range(4) *)
FourAttempts == 3 + 1

MaxAttempts == 3
LastAttempt == 2
BlockTime == 12
BackoffSeconds == 10

(* Mutant: <= for < *)
MustWaitOrEqual(blocks, interval) == blocks # NoneVal /\ blocks <= interval

(* if blocks_since_update is not None and blocks_since_update < min_interval *)
MustWait(blocks, interval) == blocks # NoneVal /\ blocks < interval

(* wait_seconds *)
WaitSeconds(blocks, interval) == (interval - blocks) * BlockTime

(* Mutant: the sleep follows the last attempt too *)
SleepsAfterEveryFailure(a) == a <= LastAttempt

(* if attempt < 2: the sleep after a failed attempt *)
SleepsAfterFailure(a) == a < LastAttempt

(* Mutant: only a false return is handled *)
SubmitRaiseEscapes(result) == result # "raise"

(* except Exception: what set_node_weights raised is caught *)
SubmitCaught(result) == TRUE

SubmitResults == {"True", "False", "raise"}

Terminal == {"DONE", "FAILED", "RAISED"}

IdleCycle ==
    /\ pc = "IDLE"
    /\ substrate = 0
    /\ validator_node_id = NoneVal
    /\ blocks_since_update = NoneVal
    /\ min_interval = NoneVal
    /\ data_to_score = <<>>
    /\ uids = <<>>
    /\ scores = <<>>
    /\ attempt = 0
    /\ checks = 0
    /\ sleeps = <<>>
    /\ submissions = <<>>
    /\ reports = <<>>
    /\ exc = ""
    /\ cycles = 0
    /\ steps = <<>>

(* No invocation of the overlapping pair has begun *)
Tasks == {1, 2}

EmptyLoop ==
    [miner_scores |-> EmptyDict, reports |-> <<>>, lookups |-> <<>>, raised |-> FALSE]

NoTransforms == [web_successes |-> <<>>, tweets |-> <<>>, profiles |-> <<>>]

(* The locals of an invocation: acquired is the handle its own get_substrate
   call returned, wake_at the block at which its interval sleep ends, t the
   transformed arrays, idx and st the loop of calculate_weights, in_flight
   the score reports sent and not yet completed *)
IdleTask ==
    [pc |-> "IDLE", acquired |-> 0, validator_node_id |-> NoneVal,
     blocks_since_update |-> NoneVal, min_interval |-> NoneVal, wake_at |-> 0,
     data_to_score |-> <<>>, t |-> NoTransforms, idx |-> 0, st |-> EmptyLoop,
     uids |-> <<>>, scores |-> <<>>, attempt |-> 0, checks |-> 0, in_flight |-> 0,
     submissions |-> <<>>]

IdleTasks ==
    /\ tasks = [self \in Tasks |-> IdleTask]
    /\ ledger = [now |-> 0, last_update |-> 0, min_interval |-> 0]

IdleFn ==
    /\ fn_pc = "off"
    /\ fn_records = <<>>
    /\ fn_simulation = FALSE
    /\ fn_x = <<>>
    /\ fn_result = <<>>

Init ==
    /\ nodes \in CycleRegistries
    /\ telemetry \in CycleStores
    /\ IdleCycle
    /\ IdleTasks
    /\ IdleFn

(* The entry of steps for a call made while validator.substrate is handle;
   simulation is the mode of a calculate_weights call *)
Step(name, handle, simulation) ==
    [step |-> name, substrate |-> handle, simulation |-> simulation]

(* The exception e leaves set_weights *)
Raise(e) ==
    /\ pc' = "RAISED"
    /\ exc' = e

(* Mutant: the connection of the previous cycle is used again *)
SetWeightsCachedConnection ==
    /\ pc \in {"IDLE"} \cup Terminal
    /\ cycles < MaxCycles
    /\ cycles' = cycles + 1
    /\ pc' = IF cycles = 0 THEN "REFRESH_CONNECTION" ELSE "RESOLVE_VALIDATOR"
    /\ validator_node_id' = NoneVal
    /\ blocks_since_update' = NoneVal
    /\ min_interval' = NoneVal
    /\ data_to_score' = <<>>
    /\ uids' = <<>>
    /\ scores' = <<>>
    /\ attempt' = 0
    /\ checks' = 0
    /\ sleeps' = <<>>
    /\ submissions' = <<>>
    /\ reports' = <<>>
    /\ exc' = ""
    /\ steps' = <<>>
    /\ UNCHANGED <<substrate, envVars, fnVars,
                   overlapVars>>

(* The caller invokes set_weights *)
SetWeights ==
    /\ pc \in {"IDLE"} \cup Terminal
    /\ cycles < MaxCycles
    /\ cycles' = cycles + 1
    /\ pc' = "REFRESH_CONNECTION"
    /\ validator_node_id' = NoneVal
    /\ blocks_since_update' = NoneVal
    /\ min_interval' = NoneVal
    /\ data_to_score' = <<>>
    /\ uids' = <<>>
    /\ scores' = <<>>
    /\ attempt' = 0
    /\ checks' = 0
    /\ sleeps' = <<>>
    /\ submissions' = <<>>
    /\ reports' = <<>>
    /\ exc' = ""
    /\ steps' = <<>>
    /\ UNCHANGED <<substrate, envVars, fnVars,
                   overlapVars>>

(* self.validator.substrate = interface.get_substrate(...) *)
RefreshConnection ==
    /\ pc = "REFRESH_CONNECTION"
    /\ \/ /\ substrate' = substrate + 1
          /\ pc' = "RESOLVE_VALIDATOR"
          /\ exc' = exc
       \/ /\ Raise("get_substrate")
          /\ substrate' = substrate
    /\ steps' = Append(steps, Step("get_substrate", substrate', FALSE))
    /\ UNCHANGED <<validator_node_id, blocks_since_update, min_interval, data_to_score,
                   uids, scores, attempt, checks, sleeps, submissions, reports, cycles,
                   envVars, fnVars,
                   overlapVars>>

(* validator_node_id = metagraph.nodes[keypair.ss58_address].node_id *)
ResolveValidator ==
    /\ pc = "RESOLVE_VALIDATOR"
    /\ IF HasNode(nodes, ValidatorHotkey)
       THEN /\ validator_node_id' = NodeIdOf(nodes, ValidatorHotkey)
            /\ pc' = "CHECK_INTERVAL"
            /\ exc' = exc
       ELSE /\ Raise("KeyError")
            /\ validator_node_id' = validator_node_id
    /\ steps' = Append(steps, Step("validator_node_id", substrate, FALSE))
    /\ UNCHANGED <<substrate, blocks_since_update, min_interval, data_to_score, uids,
                   scores, attempt, checks, sleeps, submissions, reports, cycles,
                   envVars, fnVars,
                   overlapVars>>

(* blocks_since_last_update, min_interval_to_set_weights and the test of the
   interval *)
CheckInterval ==
    /\ pc = "CHECK_INTERVAL"
    /\ checks' = checks + 1
    /\ \/ \E b \in {NoneVal} \cup (0 .. MaxBlocks), m \in 0 .. MaxMinInterval :
            /\ blocks_since_update' = b
            /\ min_interval' = m
            /\ pc' = IF MustWait(b, m) THEN "WAIT" ELSE "COMPUTE"
            /\ exc' = exc
       \/ /\ Raise("blocks_since_last_update")
          /\ UNCHANGED <<blocks_since_update, min_interval>>
       \/ \E b \in {NoneVal} \cup (0 .. MaxBlocks) :
            /\ blocks_since_update' = b
            /\ Raise("min_interval_to_set_weights")
            /\ min_interval' = min_interval
    /\ steps' = Append(steps, Step("blocks_since_last_update", substrate, FALSE))
    /\ UNCHANGED <<substrate, validator_node_id, data_to_score, uids, scores, attempt,
                   sleeps, submissions, reports, cycles, envVars, fnVars,
                   overlapVars>>

(* Mutant: the interval is checked again after the wait *)
IntervalWaitRechecks ==
    /\ pc = "WAIT"
    /\ sleeps' = Append(sleeps, [kind |-> "interval",
                                 seconds |-> WaitSeconds(blocks_since_update,
                                                         min_interval)])
    /\ pc' = "CHECK_INTERVAL"
    /\ steps' = Append(steps, Step("sleep(wait_seconds)", substrate, FALSE))
    /\ UNCHANGED <<substrate, validator_node_id, blocks_since_update, min_interval,
                   data_to_score, uids, scores, attempt, checks, submissions, reports,
                   exc, cycles, envVars, fnVars,
                   overlapVars>>

(* await asyncio.sleep(wait_seconds) *)
IntervalWait ==
    /\ pc = "WAIT"
    /\ sleeps' = Append(sleeps, [kind |-> "interval",
                                 seconds |-> WaitSeconds(blocks_since_update,
                                                         min_interval)])
    /\ pc' = "COMPUTE"
    /\ steps' = Append(steps, Step("sleep(wait_seconds)", substrate, FALSE))
    /\ UNCHANGED <<substrate, validator_node_id, blocks_since_update, min_interval,
                   data_to_score, uids, scores, attempt, checks, submissions, reports,
                   exc, cycles, envVars, fnVars,
                   overlapVars>>

(* Mutant: the failed read is swallowed and the cycle goes on without data *)
DeltaReadSwallowed(e) ==
    /\ data_to_score' = <<>>
    /\ pc' = "CALCULATE"
    /\ exc' = e

(* What becomes of the cycle when a read of the telemetry store or of the
   registry fails inside _get_delta_node_data: nothing catches it *)
DeltaReadFails(e) == Raise(e) /\ data_to_score' = data_to_score

DeltaReadErrors ==
    {"get_all_hotkeys_with_telemetry", "metagraph.nodes", "get_telemetry_by_hotkey"}

(* data_to_score = self._get_delta_node_data() *)
ComputeDeltas ==
    /\ pc = "COMPUTE"
    /\ \/ \E listing \in Listings(telemetry) :
            /\ data_to_score' = GetDeltaNodeData(nodes, listing, telemetry)
            /\ pc' = "CALCULATE"
            /\ exc' = exc
       \/ \E e \in DeltaReadErrors : DeltaReadFails(e)
    /\ steps' = Append(steps, Step("_get_delta_node_data", substrate, FALSE))
    /\ UNCHANGED <<substrate, validator_node_id, blocks_since_update, min_interval,
                   uids, scores, attempt, checks, sleeps, submissions, reports, cycles,
                   envVars, fnVars,
                   overlapVars>>

(* What set_weights does with the outcome r of calculate_weights *)
Calculation(r) ==
    /\ reports' = r.reports
    /\ IF r.raised
       THEN /\ Raise("send_score_report")
            /\ UNCHANGED <<uids, scores>>
       ELSE /\ uids' = r.uids
            /\ scores' = r.weights
            /\ pc' = "SUBMIT"
            /\ exc' = exc

(* set_weights calls calculate_weights without the simulation argument,
   whose default is False *)
CycleSimulation == FALSE

CalculateFrom(t) ==
    \E report \in [1 .. Len(data_to_score) -> ReportOutcomes] :
        Calculation(Calculated(data_to_score, t, CycleSimulation, nodes, report))

(* uids, scores = await self.calculate_weights(data_to_score) *)
CalculateWeights ==
    /\ pc = "CALCULATE"
    /\ CalculateFrom(Transforms(data_to_score))
    /\ attempt' = 0
    /\ steps' = Append(steps, Step("calculate_weights", substrate, CycleSimulation))
    /\ UNCHANGED <<substrate, validator_node_id, blocks_since_update, min_interval,
                   data_to_score, checks, sleeps, submissions, cycles, envVars, fnVars,
                   overlapVars>>

(* Mutant: while True for the bounded for loop *)
NextAttemptForever ==
    /\ attempt' = attempt
    /\ pc' = "SUBMIT"

(* The for loop moves on from the pass "attempt" *)
NextAttempt ==
    IF attempt + 1 < MaxAttempts
    THEN /\ attempt' = attempt + 1
         /\ pc' = "SUBMIT"
    ELSE /\ attempt' = attempt
         /\ pc' = "FAILED"

(* One pass of the loop up to the sleep: weights.set_node_weights(...) *)
Submit ==
    /\ pc = "SUBMIT"
    /\ \E result \in SubmitResults :
         /\ submissions' =
                Append(submissions,
                       [node_ids |-> uids, node_weights |-> scores,
                        validator_node_id |-> validator_node_id,
                        substrate |-> substrate, attempt |-> attempt,
                        result |-> result])
         /\ IF result = "True"
            THEN /\ pc' = "DONE"
                 /\ UNCHANGED <<attempt, exc>>
            ELSE IF ~SubmitCaught(result)
                 THEN /\ Raise("set_node_weights")
                      /\ UNCHANGED attempt
                 ELSE /\ exc' = exc
                      /\ IF SleepsAfterFailure(attempt)
                         THEN /\ pc' = "RETRY"
                              /\ UNCHANGED attempt
                         ELSE NextAttempt
    /\ steps' = Append(steps, Step("set_node_weights", substrate, FALSE))
    /\ UNCHANGED <<substrate, validator_node_id, blocks_since_update, min_interval,
                   data_to_score, uids, scores, checks, sleeps, reports, cycles,
                   envVars, fnVars,
                   overlapVars>>

(* Mutant: after the sleep the weights are computed again *)
BackoffRecomputes ==
    /\ pc = "RETRY"
    /\ sleeps' = Append(sleeps, [kind |-> "backoff", seconds |-> BackoffSeconds])
    /\ attempt' = attempt + 1
    /\ pc' = IF attempt + 1 < MaxAttempts THEN "COMPUTE" ELSE "FAILED"
    /\ steps' = Append(steps, Step("sleep(10)", substrate, FALSE))
    /\ UNCHANGED <<substrate, validator_node_id, blocks_since_update, min_interval,
                   data_to_score, uids, scores, checks, submissions, reports, exc,
                   cycles, envVars, fnVars,
                   overlapVars>>

(* await asyncio.sleep(10), then the next pass of the loop *)
Backoff ==
    /\ pc = "RETRY"
    /\ sleeps' = Append(sleeps, [kind |-> "backoff", seconds |-> BackoffSeconds])
    /\ NextAttempt
    /\ steps' = Append(steps, Step("sleep(10)", substrate, FALSE))
    /\ UNCHANGED <<substrate, validator_node_id, blocks_since_update, min_interval,
                   data_to_score, uids, scores, checks, submissions, reports, exc,
                   cycles, envVars, fnVars,
                   overlapVars>>

Next ==
    \/ SetWeights
    \/ RefreshConnection
    \/ ResolveValidator
    \/ CheckInterval
    \/ IntervalWait
    \/ ComputeDeltas
    \/ CalculateWeights
    \/ Submit
    \/ Backoff

Spec == Init /\ [][Next]_vars

(* set_weights has been called and has neither returned nor raised *)
CycleUnderWay == pc \notin {"IDLE"} \cup Terminal

StepEntries ==
    [step : {"get_substrate", "validator_node_id", "blocks_since_last_update",
             "sleep(wait_seconds)", "_get_delta_node_data", "calculate_weights",
             "set_node_weights", "sleep(10)"},
     substrate : 0 .. MaxCycles,
     simulation : BOOLEAN]

(* The cycle under way makes its next call: each of RefreshConnection,
   ResolveValidator, CheckInterval, IntervalWait, ComputeDeltas,
   CalculateWeights, Submit and Backoff adds one entry to steps, and no other
   step of Next does while a cycle is under way *)
CycleAdvances ==
    /\ CycleUnderWay
    /\ \E e \in StepEntries : steps' = Append(steps, e)

(* Every call set_weights awaits returns or raises, so a cycle under way
   makes its next call *)
FairSpec == Spec /\ WF_steps(CycleAdvances)

-----------------------------------------------------------------------------
(* Two overlapping invocations of set_weights on one event loop.  An
   invocation runs without interruption from one await that suspends to the
   next: asyncio.sleep(wait_seconds), send_score_report, asyncio.sleep(10).
   The ledger counts blocks; an accepted submission is its last update.  The
   collaborators return in this specification, the score report excepted:
   what set_weights does when they raise is in Spec. *)

MaxNow == 4
OverlapMinInterval == 2

cycleLocals ==
    <<pc, validator_node_id, blocks_since_update, min_interval, data_to_score, uids,
      scores, attempt, checks, sleeps, submissions, reports, exc, cycles, steps>>

(* Mutant: the handle is the one the invocation acquired itself *)
SubmitHandleOwn(tk, shared) == tk.acquired

(* substrate=self.validator.substrate: the attribute is read at the call *)
SubmitHandle(tk, shared) == shared

(* Mutant: asyncio.create_task(self.node_manager.send_score_report(...)) *)
AwaitsReportNever == FALSE

(* await self.node_manager.send_score_report(...) *)
AwaitsReport == TRUE

(* One pass of the submission loop up to its sleep or its return; led is the
   ledger and shared the value of validator.substrate at the call *)
SubmitOutcomes(tk, led, shared) ==
    {[task |->
         [tk EXCEPT
            !.submissions =
                Append(@, [node_ids |-> tk.uids, node_weights |-> tk.scores,
                           validator_node_id |-> tk.validator_node_id,
                           substrate |-> SubmitHandle(tk, shared),
                           refreshes |-> shared,
                           since |-> led.now - led.last_update,
                           attempt |-> tk.attempt, result |-> result]),
            !.pc = IF result = "True" THEN "DONE"
                   ELSE IF SleepsAfterFailure(tk.attempt) THEN "BACKOFF_SLEEP"
                   ELSE "FAILED"],
      ledger |-> IF result = "True" THEN [led EXCEPT !.last_update = led.now] ELSE led] :
        result \in SubmitResults}

(* The scoring loop of calculate_weights from index i up to the next score
   report, and after the last record the sort and the first submission *)
RECURSIVE ScanOutcomes(_, _, _, _)
ScanOutcomes(tk, led, shared, i) ==
    IF i > Len(tk.data_to_score)
    THEN SubmitOutcomes(
             [tk EXCEPT !.idx = i,
                        !.uids = SortedKeys(tk.st.miner_scores),
                        !.scores = WeightsOf(tk.st.miner_scores,
                                             SortedKeys(tk.st.miner_scores))],
             led, shared)
    ELSE IF \/ ~ResolveUid(tk.data_to_score[i], CycleSimulation, nodes).found
            \/ ResolveUid(tk.data_to_score[i], CycleSimulation, nodes).uid = NoneVal
         THEN ScanOutcomes(
                  [tk EXCEPT !.st = ScoreStep(tk.st, tk.data_to_score[i], 0,
                                              CycleSimulation, nodes, "ok")],
                  led, shared, i + 1)
         ELSE IF AwaitsReport
              THEN {[task |-> [tk EXCEPT !.pc = "REPORTING", !.idx = i,
                                         !.in_flight = @ + 1],
                     ledger |-> led]}
              ELSE ScanOutcomes(
                       [tk EXCEPT !.in_flight = @ + 1,
                                  !.st = ScoreStep(tk.st, tk.data_to_score[i],
                                                   CombinedScore(tk.t.web_successes,
                                                                 tk.t.tweets,
                                                                 tk.t.profiles, i),
                                                   CycleSimulation, nodes, "ok")],
                       led, shared, i + 1)

(* _get_delta_node_data and calculate_weights up to its first score report *)
ScoringOutcomes(tk, led, shared) ==
    UNION {ScanOutcomes([tk EXCEPT !.data_to_score = d, !.t = Transforms(d),
                                   !.st = EmptyLoop],
                        led, shared, 1) :
              d \in {GetDeltaNodeData(nodes, listing, telemetry) :
                        listing \in Listings(telemetry)}}

(* set_weights from its first line to the interval check, shared being the
   handle get_substrate has just returned *)
StartOutcomes(tk, led, shared) ==
    LET checked == [tk EXCEPT !.acquired = shared,
                              !.validator_node_id = NodeIdOf(nodes, ValidatorHotkey),
                              !.blocks_since_update = led.now - led.last_update,
                              !.min_interval = led.min_interval,
                              !.checks = @ + 1]
    IN  IF MustWait(checked.blocks_since_update, checked.min_interval)
        THEN {[task |-> [checked EXCEPT
                            !.pc = "INTERVAL_SLEEP",
                            !.wake_at = led.now + (checked.min_interval
                                                   - checked.blocks_since_update)],
               ledger |-> led]}
        ELSE ScoringOutcomes(checked, led, shared)

InitOverlap ==
    /\ nodes = <<[hotkey |-> "val", node_id |-> 0], [hotkey |-> "m1", node_id |-> 1]>>
    /\ telemetry = [NoTelemetry EXCEPT
                       !["m1"] = <<Snapshot("m1", 2, 1, <<5, 3, 0>>),
                                   Snapshot("m1", 2, 2, <<10, 3, 4>>)>>,
                       !["x1"] = <<Snapshot("x1", 0, 1, <<0, 0, 0>>)>>]
    /\ IdleCycle
    /\ IdleFn
    /\ tasks = [self \in Tasks |-> IdleTask]
    /\ \E last \in 0 .. OverlapMinInterval :
         ledger = [now |-> OverlapMinInterval, last_update |-> last,
                   min_interval |-> OverlapMinInterval]

(* The invocation self is called and runs to its first suspension *)
Start(self) ==
    /\ tasks[self].pc = "IDLE"
    /\ substrate' = substrate + 1
    /\ \E o \in StartOutcomes(tasks[self], ledger, substrate + 1) :
         /\ tasks' = [tasks EXCEPT ![self] = o.task]
         /\ ledger' = o.ledger
    /\ UNCHANGED <<cycleLocals, envVars, fnVars>>

(* asyncio.sleep(wait_seconds) is over: the interval is not checked again *)
IntervalWake(self) ==
    /\ tasks[self].pc = "INTERVAL_SLEEP"
    /\ ledger.now >= tasks[self].wake_at
    /\ \E o \in ScoringOutcomes(tasks[self], ledger, substrate) :
         /\ tasks' = [tasks EXCEPT ![self] = o.task]
         /\ ledger' = o.ledger
    /\ UNCHANGED <<substrate, cycleLocals, envVars, fnVars>>

(* A score report of self completes: it returned or it raised.  The
   invocation that awaits it goes on with the loop *)
ReportCompletes(self) ==
    /\ tasks[self].in_flight > 0
    /\ IF tasks[self].pc = "REPORTING"
       THEN \E outcome \in ReportOutcomes :
              LET tk == tasks[self]
                  st == ScoreStep(tk.st, tk.data_to_score[tk.idx],
                                  CombinedScore(tk.t.web_successes, tk.t.tweets,
                                                tk.t.profiles, tk.idx),
                                  CycleSimulation, nodes, outcome)
                  after == [tk EXCEPT !.st = st, !.in_flight = @ - 1]
              IN  IF st.raised
                  THEN /\ tasks' = [tasks EXCEPT ![self] = [after EXCEPT !.pc = "RAISED"]]
                       /\ ledger' = ledger
                  ELSE \E o \in ScanOutcomes(after, ledger, substrate, tk.idx + 1) :
                         /\ tasks' = [tasks EXCEPT ![self] = o.task]
                         /\ ledger' = o.ledger
       ELSE /\ tasks' = [tasks EXCEPT ![self].in_flight = @ - 1]
            /\ ledger' = ledger
    /\ UNCHANGED <<substrate, cycleLocals, envVars, fnVars>>

(* asyncio.sleep(10) is over: the next pass of the submission loop *)
BackoffWake(self) ==
    /\ tasks[self].pc = "BACKOFF_SLEEP"
    /\ \E o \in SubmitOutcomes([tasks[self] EXCEPT !.attempt = @ + 1], ledger, substrate) :
         /\ tasks' = [tasks EXCEPT ![self] = o.task]
         /\ ledger' = o.ledger
    /\ UNCHANGED <<substrate, cycleLocals, envVars, fnVars>>

(* The chain produces a block *)
Tick ==
    /\ ledger.now < MaxNow
    /\ ledger' = [ledger EXCEPT !.now = @ + 1]
    /\ UNCHANGED <<tasks, substrate, cycleLocals, envVars, fnVars>>

NextOverlap ==
    \/ \E self \in Tasks : Start(self)
    \/ \E self \in Tasks : IntervalWake(self)
    \/ \E self \in Tasks : ReportCompletes(self)
    \/ \E self \in Tasks : BackoffWake(self)
    \/ Tick

SpecOverlap == InitOverlap /\ [][NextOverlap]_vars

-----------------------------------------------------------------------------
(* The Delta Engine on its own: _get_delta_node_data applied to every
   registry of Registries and every store of Stores *)

InitDelta ==
    /\ nodes \in Registries
    /\ telemetry \in Stores
    /\ IdleCycle
    /\ IdleTasks
    /\ fn_pc = "ready"
    /\ fn_records = <<>>
    /\ fn_simulation = FALSE
    /\ fn_x = <<>>
    /\ fn_result = <<>>

GetDeltas ==
    /\ fn_pc = "ready"
    /\ \E listing \in Listings(telemetry) :
         fn_result' = GetDeltaNodeData(nodes, listing, telemetry)
    /\ fn_pc' = "returned"
    /\ UNCHANGED <<fn_records, fn_simulation, fn_x, envVars, cycleVars,
                   overlapVars>>

NextDelta == GetDeltas

SpecDelta == InitDelta /\ [][NextDelta]_vars

-----------------------------------------------------------------------------
(* The Delta Engine on snapshots as the store can hand them over: a timestamp
   may be a date string instead of an integer, a counter may be None *)

(* A snapshot whose timestamp is the integer timestamp, or, when
   timestamp_is_str, a date string whose place among date strings is
   timestamp; a counter that is None is NoneVal *)
RawSnapshot(hotkey, uid, timestamp, timestamp_is_str, web_success) ==
    [hotkey |-> hotkey, uid |-> uid, timestamp |-> timestamp,
     timestamp_is_str |-> timestamp_is_str,
     web_success |-> web_success,
     twitter_returned_tweets |-> 0,
     twitter_returned_profiles |-> 0]

RawCounters == {NoneVal, 0, 5}

RawSnapshotsOf(hotkey) ==
    {RawSnapshot(hotkey, 1, t, b, c) : t \in Timestamps, b \in BOOLEAN, c \in RawCounters}

MaxRawSnaps == 2

(* sorted(node_telemetry, key=lambda x: x.timestamp, reverse=True) compares a
   str with an int, which raises TypeError *)
SortRaises(node_telemetry) ==
    \E i, j \in 1 .. Len(node_telemetry) :
        node_telemetry[i].timestamp_is_str # node_telemetry[j].timestamp_is_str

(* latest.<counter> - oldest.<counter> with a None operand raises TypeError *)
SubtractionRaises(latest, oldest) ==
    \/ latest.web_success = NoneVal
    \/ oldest.web_success = NoneVal
    \/ latest.twitter_returned_tweets = NoneVal
    \/ oldest.twitter_returned_tweets = NoneVal
    \/ latest.twitter_returned_profiles = NoneVal
    \/ oldest.twitter_returned_profiles = NoneVal

(* One pass of the loop over hotkeys_to_score raises *)
ScoringRaises(node_telemetry) ==
    /\ Len(node_telemetry) >= MinSnapshots
    /\ \/ SortRaises(node_telemetry)
       \/ SubtractionRaises(SortedDesc(node_telemetry)[1],
                            SortedDesc(node_telemetry)[Len(node_telemetry)])

(* _get_delta_node_data has no try: the first pass that raises ends the call
   and nothing is returned *)
GetDeltaNodeDataOrRaise(ns, hotkeys_to_score, tel) ==
    IF \E i \in 1 .. Len(hotkeys_to_score) : ScoringRaises(tel[hotkeys_to_score[i]])
    THEN [raised |-> TRUE, records |-> <<>>]
    ELSE [raised |-> FALSE, records |-> GetDeltaNodeData(ns, hotkeys_to_score, tel)]

(* m1 has up to MaxRawSnaps snapshots of any kind, x1 two well-formed ones *)
RawStores ==
    {[NoTelemetry EXCEPT
         !["m1"] = h,
         !["x1"] = <<RawSnapshot("x1", 2, 1, FALSE, 0), RawSnapshot("x1", 2, 2, FALSE, 5)>>] :
        h \in SeqsUpTo(RawSnapshotsOf("m1"), MaxRawSnaps) \ {<<>>}}

InitRaw ==
    /\ nodes \in CycleRegistries
    /\ telemetry \in RawStores
    /\ IdleCycle
    /\ IdleTasks
    /\ fn_pc = "ready"
    /\ fn_records = <<>>
    /\ fn_simulation = FALSE
    /\ fn_x = <<>>
    /\ fn_result = <<>>

GetDeltasRaw ==
    /\ fn_pc = "ready"
    /\ \E listing \in Listings(telemetry) :
         fn_result' = GetDeltaNodeDataOrRaise(nodes, listing, telemetry)
    /\ fn_pc' = "returned"
    /\ UNCHANGED <<fn_records, fn_simulation, fn_x, envVars, cycleVars,
                   overlapVars>>

NextRaw == GetDeltasRaw

SpecRaw == InitRaw /\ [][NextRaw]_vars

-----------------------------------------------------------------------------
(* The Weight Calculator on its own: calculate_weights applied to every
   sequence of up to MaxRecords records of CalcRecords, in both modes *)

InitCalc ==
    /\ nodes \in CalcRegistries
    /\ telemetry = NoTelemetry
    /\ IdleCycle
    /\ IdleTasks
    /\ fn_pc = "ready"
    /\ fn_records \in SeqsUpTo(CalcRecords, MaxRecords)
    /\ fn_simulation \in BOOLEAN
    /\ fn_x = <<>>
    /\ fn_result = <<>>

CalculateCall(t) ==
    \E report \in [1 .. Len(fn_records) -> ReportOutcomes] :
        fn_result' = Calculated(fn_records, t, fn_simulation, nodes, report)

Calculate ==
    /\ fn_pc = "ready"
    /\ CalculateCall(Transforms(fn_records))
    /\ fn_pc' = "returned"
    /\ UNCHANGED <<fn_records, fn_simulation, fn_x, envVars, cycleVars,
                   overlapVars>>

NextCalc == Calculate

SpecCalc == InitCalc /\ [][NextCalc]_vars

-----------------------------------------------------------------------------
(* The Weight Calculator on three nodes that differ in web_success only: the
   record at index i belongs to the node of slot id i - 1, and its
   twitter_returned_tweets and twitter_returned_profiles are 0 *)

RankRegistry ==
    <<[hotkey |-> "m1", node_id |-> 2], [hotkey |-> "val", node_id |-> 1],
      [hotkey |-> "x1", node_id |-> 0]>>

RankRecords(w) ==
    <<NodeData("x1", 0, 0, w[1], 0, 0), NodeData("val", 1, 0, w[2], 0, 0),
      NodeData("m1", 2, 0, w[3], 0, 0)>>

InitRank ==
    /\ nodes = RankRegistry
    /\ telemetry = NoTelemetry
    /\ IdleCycle
    /\ IdleTasks
    /\ fn_pc = "ready"
    /\ fn_records \in {RankRecords(w) : w \in [1 .. 3 -> RankValues]}
    /\ fn_simulation \in BOOLEAN
    /\ fn_x = <<>>
    /\ fn_result = <<>>

SpecRank == InitRank /\ [][NextCalc]_vars

-----------------------------------------------------------------------------
(* The sort that ends calculate_weights, on its own, for uids that are
   integers or strings of digits.  A uid is [isstr, int, text]: an integer n is
   [FALSE, n, <<>>] and a string is [TRUE, 0, its digits].  miner_scores is the
   sequence of its (uid, score) items in insertion order. *)

IntUid(n) == [isstr |-> FALSE, int |-> n, text |-> <<>>]

StrUid(digits) == [isstr |-> TRUE, int |-> 0, text |-> digits]

(* The uids 0, 2, 9, 10 and the strings "2", "9", "10" *)
SortUids ==
    {IntUid(n) : n \in {0, 2, 9, 10}} \cup {StrUid(t) : t \in {<<2>>, <<9>>, <<1, 0>>}}

SortScores == {0, 333, Scale}

(* int(x) for a string of digits *)
RECURSIVE IntOf(_)
IntOf(digits) ==
    IF Len(digits) = 0 THEN 0
    ELSE 10 * IntOf(SubSeq(digits, 1, Len(digits) - 1)) + digits[Len(digits)]

(* Mutant: strings are compared as text, by their first characters *)
SortKeyAsText(x) ==
    IF x.isstr
    THEN 100 * x.text[1] + (IF Len(x.text) > 1 THEN 10 * (x.text[2] + 1) ELSE 0)
    ELSE x.int

(* key=lambda x: int(x) if isinstance(x, str) and x.isdigit() else x *)
SortKey(x) == IF x.isstr THEN IntOf(x.text) ELSE x.int

(* sorted(miner_scores.keys(), key=...): stable, so uids of equal key keep the
   order of the dict *)
RECURSIVE SortedByKey(_)
SortedByKey(items) ==
    IF Len(items) = 0 THEN <<>>
    ELSE LET init == SortedByKey(SubSeq(items, 1, Len(items) - 1))
             x == items[Len(items)]
         IN  SelectSeq(init, LAMBDA e : SortKey(e.uid) <= SortKey(x.uid)) \o <<x>>
                 \o SelectSeq(init, LAMBDA e : SortKey(e.uid) > SortKey(x.uid))

(* uids = sorted(...); weights = [float(miner_scores[uid]) for uid in uids] *)
SortedOutput(items) ==
    LET sorted == SortedByKey(items)
    IN  [uids |-> [i \in 1 .. Len(sorted) |-> sorted[i].uid],
         weights |-> [i \in 1 .. Len(sorted) |-> sorted[i].score]]

InitSort ==
    /\ nodes = <<>>
    /\ telemetry = NoTelemetry
    /\ IdleCycle
    /\ IdleTasks
    /\ fn_pc = "ready"
    /\ fn_records \in {items \in SeqsUpTo([uid : SortUids, score : SortScores],
                                          MaxRecords) :
                          \A i, j \in 1 .. Len(items) :
                              i # j => items[i].uid # items[j].uid}
    /\ fn_simulation = FALSE
    /\ fn_x = <<>>
    /\ fn_result = <<>>

SortMinerScores ==
    /\ fn_pc = "ready"
    /\ fn_result' = SortedOutput(fn_records)
    /\ fn_pc' = "returned"
    /\ UNCHANGED <<fn_records, fn_simulation, fn_x, envVars, cycleVars,
                   overlapVars>>

NextSort == SortMinerScores

SpecSort == InitSort /\ [][NextSort]_vars

-----------------------------------------------------------------------------
(* The Score Transform on its own: apply_kurtosis_custom applied to every
   array of up to MaxLen values of MetricValues *)

InitTransform ==
    /\ nodes = <<>>
    /\ telemetry = NoTelemetry
    /\ IdleCycle
    /\ IdleTasks
    /\ fn_pc = "ready"
    /\ fn_records = <<>>
    /\ fn_simulation = FALSE
    /\ fn_x \in SeqsUpTo(MetricValues, MaxLen)
    /\ fn_result = <<>>

ApplyKurtosis ==
    /\ fn_pc = "ready"
    /\ fn_result' = apply_kurtosis_custom(fn_x)
    /\ fn_pc' = "returned"
    /\ UNCHANGED <<fn_records, fn_simulation, fn_x, envVars, cycleVars,
                   overlapVars>>

NextTransform == ApplyKurtosis

SpecTransform == InitTransform /\ [][NextTransform]_vars

-----------------------------------------------------------------------------
(* Properties of the Publisher, checked under Spec *)

Results == [i \in 1 .. Len(submissions) |-> submissions[i].result]

Backoffs == Len(SelectSeq(sleeps, LAMBDA z : z.kind = "backoff"))

IntervalSleeps == SelectSeq(sleeps, LAMBDA z : z.kind = "interval")

(* The position of set_weights is past the interval wait *)
PastInterval ==
    \/ pc \in {"COMPUTE", "CALCULATE", "SUBMIT", "RETRY", "DONE", "FAILED"}
    \/ pc = "RAISED" /\ exc \in DeltaReadErrors \cup {"send_score_report"}

(* C1: in one cycle set_node_weights is called at most 3 times whatever mix
   of false returns and exceptions occurs; a call that returns success is the
   last call of the cycle and ends it DONE; DONE is reached only by a
   successful call. *)
C1_AtMostThreeAttempts ==
    /\ Len(submissions) <= 3
    /\ \A i \in 1 .. Len(submissions) :
         submissions[i].result = "True" => i = Len(submissions) /\ pc = "DONE"
    /\ pc = "DONE" =>
         /\ submissions # <<>>
         /\ submissions[Len(submissions)].result = "True"

C1_Witness ==
    /\ pc = "DONE"
    /\ Results = <<"raise", "False", "True">>

(* C2: a 10-second sleep follows each failed attempt except the third and
   never a successful one: a cycle ending DONE has slept one backoff less than
   it made attempts (two failures then success: 3 attempts, 2 backoffs), a
   cycle ending FAILED has made 3 attempts and slept exactly 2 backoffs, and
   while the cycle runs every failed attempt before the third has been
   followed by its backoff once the next attempt is due. *)
C2_BackoffAfterFailedAttempt ==
    /\ \A i \in 1 .. Len(sleeps) :
         sleeps[i].kind = "backoff" => sleeps[i].seconds = 10
    /\ pc = "DONE" => Backoffs = Len(submissions) - 1
    /\ pc = "FAILED" => Len(submissions) = 3 /\ Backoffs = 2
    /\ pc = "SUBMIT" => Backoffs = Len(submissions)
    /\ pc = "RETRY" => Backoffs = Len(submissions) - 1 /\ Len(submissions) < 3

C2_Witness ==
    /\ pc = "DONE"
    /\ Results = <<"False", "raise", "True">>
    /\ Backoffs = 2

(* C3: when all 3 attempts fail, by a false return or by an exception in any
   combination, the cycle ends FAILED and nothing is raised; FAILED is reached
   in no other way, and no exception leaves set_weights once an attempt has
   been made. *)
C3_FailedReturnsNormally ==
    /\ (Len(submissions) = 3 /\ \A i \in 1 .. 3 : submissions[i].result # "True")
         => pc = "FAILED" /\ exc = ""
    /\ pc = "FAILED" =>
         Len(submissions) = 3 /\ \A i \in 1 .. 3 : submissions[i].result # "True"
    /\ submissions # <<>> => pc # "RAISED" /\ exc = ""

C3_Witness ==
    /\ pc = "FAILED"
    /\ Results = <<"raise", "False", "raise">>
    /\ exc = ""

(* C4 as stated: no set_node_weights call is made in a cycle whose most
   recent interval check found blocks_since_update < min_interval (the locals
   hold what the most recent check found). *)
C4_RecheckedBeforeSubmit ==
    submissions # <<>> =>
        blocks_since_update = NoneVal \/ blocks_since_update >= min_interval

(* C4 as amended: the interval is checked once per cycle and not again after
   the wait; a cycle whose check found blocks_since_update < min_interval
   makes its set_node_weights calls only after the wait of
   (min_interval - blocks_since_update) * 12 seconds computed from that
   check, which is its first sleep. *)
C4_CheckedOnceThenWaited ==
    /\ checks <= 1
    /\ PastInterval => checks = 1
    /\ submissions # <<>> =>
         /\ checks = 1
         /\ (blocks_since_update # NoneVal /\ blocks_since_update < min_interval)
              => /\ sleeps # <<>>
                 /\ sleeps[1] = [kind |-> "interval",
                                 seconds |-> (min_interval - blocks_since_update) * 12]

C4_Witness ==
    /\ submissions # <<>>
    /\ blocks_since_update # NoneVal
    /\ blocks_since_update < min_interval
    /\ checks = 1
    /\ Len(IntervalSleeps) = 1

(* C5: the cycle sleeps before computing weights exactly when
   blocks_since_update is known and < min_interval, once and for
   (min_interval - blocks_since_update) * 12 seconds, 180 for 5 and 20; when
   blocks_since_update is unknown or >= min_interval it does not sleep for the
   interval at all. *)
C5_IntervalWait ==
    /\ PastInterval =>
         IF blocks_since_update # NoneVal /\ blocks_since_update < min_interval
         THEN /\ IntervalSleeps =
                    <<[kind |-> "interval",
                       seconds |-> (min_interval - blocks_since_update) * 12]>>
              /\ sleeps[1].kind = "interval"
         ELSE IntervalSleeps = <<>>
    /\ ~PastInterval => sleeps = <<>>
    /\ (PastInterval /\ blocks_since_update = 5 /\ min_interval = 20)
         => sleeps[1].seconds = 180

C5_Witness ==
    /\ pc = "COMPUTE"
    /\ blocks_since_update = 5
    /\ min_interval = 20
    /\ sleeps = <<[kind |-> "interval", seconds |-> 180]>>

(* C6 as stated: set_weights never raises to its caller, whichever
   collaborator call fails. *)
C6_NeverRaises == pc # "RAISED" /\ exc = ""

(* C7: when a read of the registry or of the telemetry store fails in a
   cycle, the cycle is aborted without any set_node_weights call; every
   set_node_weights call passes the vector computed from the records of all
   hotkeys of the store and all nodes of the registry. *)
C7_NoSubmitAfterFailedRead ==
    /\ exc \in DeltaReadErrors \cup {"KeyError"} =>
         pc = "RAISED" /\ submissions = <<>>
    /\ pc = "RAISED" => submissions = <<>>
    /\ submissions # <<>> =>
         /\ \E listing \in Listings(telemetry) :
              data_to_score = GetDeltaNodeData(nodes, listing, telemetry)
         /\ \A i \in 1 .. Len(submissions) :
              /\ submissions[i].node_ids = uids
              /\ submissions[i].node_weights = scores
              /\ Len(uids) = Len(scores)

C7_Witness ==
    /\ pc = "RAISED"
    /\ exc = "get_telemetry_by_hotkey"
    /\ \E h \in Hotkeys : Len(telemetry[h]) > 0
    /\ submissions = <<>>

AllZeroRecords ==
    \A i \in 1 .. Len(data_to_score) :
        /\ data_to_score[i].web_success = 0
        /\ data_to_score[i].twitter_returned_tweets = 0
        /\ data_to_score[i].twitter_returned_profiles = 0

(* C16: apply_kurtosis_custom returns, for the empty input and for the
   all-zero input of every length, the all-zero output of the same length;
   and a cycle whose delta records are all zero gives weight 0 to every slot
   id it submits. *)
C16_ZeroInputZeroOutput ==
    /\ \A n \in 0 .. MaxRecords :
         apply_kurtosis_custom([i \in 1 .. n |-> 0]) = [i \in 1 .. n |-> 0]
    /\ (pc \in {"SUBMIT", "RETRY", "DONE", "FAILED"} /\ AllZeroRecords) =>
         /\ Len(scores) = Len(uids)
         /\ \A k \in 1 .. Len(scores) : scores[k] = 0
         /\ \A i \in 1 .. Len(submissions) :
              \A k \in 1 .. Len(submissions[i].node_weights) :
                  submissions[i].node_weights[k] = 0

(* Three registry nodes without telemetry: three zero records, three weights 0 *)
C16_Witness ==
    /\ pc = "DONE"
    /\ Len(data_to_score) = 3
    /\ AllZeroRecords
    /\ uids = <<0, 1, 2>>
    /\ scores = <<0, 0, 0>>
    /\ submissions[Len(submissions)].node_weights = <<0, 0, 0>>

StepNames == [i \in 1 .. Len(steps) |-> steps[i].step]

(* The place of a call in set_weights *)
StepRank(name) ==
    CASE name = "get_substrate" -> 1
      [] name = "validator_node_id" -> 2
      [] name = "blocks_since_last_update" -> 3
      [] name = "sleep(wait_seconds)" -> 4
      [] name = "_get_delta_node_data" -> 5
      [] name = "calculate_weights" -> 6
      [] name = "set_node_weights" -> 7
      [] name = "sleep(10)" -> 7

StepsBefore(j) == {steps[i].step : i \in 1 .. j - 1}

(* C23: in every cycle the first call is get_substrate and every later call
   of the cycle uses the handle it stored; then come, each at most once and in
   this order, the interval check, the interval wait, the Delta Engine and the
   Weight Calculator in non-simulation mode; a set_node_weights call is made
   only after all of them, so telemetry is read after the interval wait. *)
C23_StepOrder ==
    /\ pc \notin {"IDLE", "REFRESH_CONNECTION"} => steps # <<>>
    /\ steps # <<>> => steps[1].step = "get_substrate"
    /\ \A i \in 2 .. Len(steps) : steps[i].substrate = steps[1].substrate
    /\ \A i, j \in 1 .. Len(steps) :
         i < j =>
            /\ StepRank(steps[i].step) <= StepRank(steps[j].step)
            /\ StepRank(steps[j].step) < 7 =>
                 StepRank(steps[i].step) < StepRank(steps[j].step)
    /\ \A j \in 1 .. Len(steps) :
         /\ steps[j].step = "calculate_weights" => ~steps[j].simulation
         /\ steps[j].step = "set_node_weights" =>
              {"get_substrate", "blocks_since_last_update", "_get_delta_node_data",
               "calculate_weights"} \subseteq StepsBefore(j)
         /\ steps[j].step = "_get_delta_node_data" =>
              /\ "blocks_since_last_update" \in StepsBefore(j)
              /\ (blocks_since_update # NoneVal /\ blocks_since_update < min_interval) => "sleep(wait_seconds)" \in StepsBefore(j)

(* A second cycle that waits for the interval: its handle is the second one *)
C23_Witness ==
    /\ cycles = 2
    /\ pc = "DONE"
    /\ StepNames = <<"get_substrate", "validator_node_id", "blocks_since_last_update",
                     "sleep(wait_seconds)", "_get_delta_node_data",
                     "calculate_weights", "set_node_weights">>
    /\ steps[1].substrate = 2
    /\ steps[7].substrate = 2

(* C26: the submissions of one cycle carry the same slot ids, the same
   weights, the same validator slot id and the same connection handle, which
   are the ones computed before the first attempt; once set_node_weights has
   been called the cycle calls nothing but set_node_weights and the ten
   second sleep, and the interval was checked once. *)
C26_RetryRecomputesNothing ==
    /\ \A i \in 1 .. Len(submissions) :
         /\ submissions[i].node_ids = uids
         /\ submissions[i].node_weights = scores
         /\ submissions[i].validator_node_id = validator_node_id
         /\ submissions[i].substrate = substrate
         /\ submissions[i].node_ids = submissions[1].node_ids
         /\ submissions[i].node_weights = submissions[1].node_weights
         /\ submissions[i].validator_node_id = submissions[1].validator_node_id
         /\ submissions[i].substrate = submissions[1].substrate
    /\ \A i, j \in 1 .. Len(steps) :
         (i < j /\ steps[i].step = "set_node_weights") =>
            steps[j].step \in {"set_node_weights", "sleep(10)"}
    /\ submissions # <<>> =>
         /\ checks = 1
         /\ Cardinality({i \in 1 .. Len(steps) : steps[i].step = "calculate_weights"}) = 1
         /\ Cardinality({i \in 1 .. Len(steps) : steps[i].step = "get_substrate"}) = 1

(* Three attempts with a non-empty vector, all of them failed *)
C26_Witness ==
    /\ pc = "FAILED"
    /\ Len(submissions) = 3
    /\ Len(uids) >= 2
    /\ \E i \in 1 .. Len(scores) : scores[i] > 0
    /\ submissions[3].node_weights = submissions[1].node_weights

RegistryNodeIds == {nodes[k].node_id : k \in 1 .. Len(nodes)}

TelemetryOnlyHotkeys ==
    {h \in Hotkeys : Len(telemetry[h]) > 0 /\ \A k \in 1 .. Len(nodes) : nodes[k].hotkey # h}

(* C29: the slot ids of every submission are exactly the node ids of the
   registry, one entry per registry node, the nodes without telemetry
   included; a hotkey that has telemetry but no registry node has a record
   among the delta records the scores were computed from and no entry of its
   own in the submission. *)
C29_SubmittedSlotsAreRegistrySlots ==
    \A i \in 1 .. Len(submissions) :
        /\ {submissions[i].node_ids[k] : k \in 1 .. Len(submissions[i].node_ids)}
              = RegistryNodeIds
        /\ Len(submissions[i].node_ids) = Len(nodes)
        /\ Len(submissions[i].node_weights) = Len(nodes)
        /\ \A h \in TelemetryOnlyHotkeys :
              \E k \in 1 .. Len(data_to_score) : data_to_score[k].hotkey = h
        /\ Len(data_to_score) = Len(nodes) + Cardinality(TelemetryOnlyHotkeys)

(* A submission made while one registry node has no telemetry and one hotkey
   has telemetry only *)
C29_Witness ==
    /\ submissions # <<>>
    /\ TelemetryOnlyHotkeys # {}
    /\ \E k \in 1 .. Len(nodes) : telemetry[nodes[k].hotkey] = <<>>
    /\ Len(data_to_score) > Len(submissions[1].node_ids)
    /\ Len(submissions[1].node_ids) = 2

(* C28: every step of a cycle under way is one more call, and a cycle makes
   at most 11 of them; at every point of a cycle there has been at most one
   interval wait, at most 3 calls of set_node_weights and at most 2 ten
   second sleeps, and a cycle that has begun ends: it returns after a success, returns after
   the last failed attempt, or an exception leaves it. *)
C28_CycleTerminates ==
    /\ [][pc \notin {"IDLE", "DONE", "FAILED", "RAISED"} =>
             (Len(steps') = Len(steps) + 1 /\ Len(steps') <= 11)]_vars
    /\ [](/\ Len(submissions) <= 3
          /\ Cardinality({i \in 1 .. Len(sleeps) : sleeps[i].kind = "interval"}) <= 1
          /\ Cardinality({i \in 1 .. Len(sleeps) : sleeps[i].kind = "backoff"}) <= 2
          /\ checks <= 1
          /\ attempt < 3)
    /\ (pc \notin {"IDLE", "DONE", "FAILED", "RAISED"})
          ~> (pc \in {"DONE", "FAILED", "RAISED"})

(* The longest cycle: one interval wait, three failed attempts, two ten
   second sleeps *)
C28_Witness ==
    /\ pc = "FAILED"
    /\ Len(submissions) = 3
    /\ Len(sleeps) = 3
    /\ sleeps[1].kind = "interval"
    /\ sleeps[2].kind = "backoff"
    /\ sleeps[3].kind = "backoff"

-----------------------------------------------------------------------------
(* Properties of the Delta Engine, checked under SpecDelta *)

RecordsOf(hotkey) == {i \in 1 .. Len(fn_result) : fn_result[i].hotkey = hotkey}

InRegistry(hotkey) == \E i \in 1 .. Len(nodes) : nodes[i].hotkey = hotkey

SlotOf(hotkey) ==
    nodes[CHOOSE i \in 1 .. Len(nodes) : nodes[i].hotkey = hotkey].node_id

(* C8: for every registry and store, the output of the Delta Engine holds
   exactly one record for each hotkey of the registry, and no hotkey has two
   records. *)
C8_OneRecordPerRegistryNode ==
    fn_pc = "returned" =>
        /\ \A i \in 1 .. Len(nodes) : Cardinality(RecordsOf(nodes[i].hotkey)) = 1
        /\ \A h \in Hotkeys : Cardinality(RecordsOf(h)) <= 1

(* Disjoint identifier sets, and nodes with 0, 1 and 3 snapshots *)
C8_Witness ==
    /\ fn_pc = "returned"
    /\ Len(nodes) = 1
    /\ nodes[1].hotkey = "val"
    /\ Len(telemetry["m1"]) = 1
    /\ Len(telemetry["x1"]) = 3
    /\ Len(fn_result) = 3

(* C9: a hotkey with fewer than 2 snapshots gets a record with every counter
   0 whose uid is the registry's slot id for the hotkey, 0 if the hotkey is
   not in the registry; this holds for a registry node without snapshots
   too. *)
C9_ZeroRecordBelowTwoSnapshots ==
    fn_pc = "returned" =>
        \A i \in 1 .. Len(fn_result) :
            Len(telemetry[fn_result[i].hotkey]) < 2 =>
                /\ fn_result[i].web_success = 0
                /\ fn_result[i].twitter_returned_tweets = 0
                /\ fn_result[i].twitter_returned_profiles = 0
                /\ fn_result[i].uid = IF InRegistry(fn_result[i].hotkey)
                                      THEN SlotOf(fn_result[i].hotkey)
                                      ELSE 0

(* m1 has one snapshot and slot id 1 in the registry, x1 has one snapshot and
   is not in the registry, val has no snapshot and slot id 0 *)
C9_Witness ==
    /\ fn_pc = "returned"
    /\ Len(telemetry["m1"]) = 1
    /\ telemetry["m1"][1].uid = 2
    /\ Len(telemetry["x1"]) = 1
    /\ nodes = <<[hotkey |-> "val", node_id |-> 0], [hotkey |-> "m1", node_id |-> 1]>>
    /\ \E i \in 1 .. Len(fn_result) :
         fn_result[i].hotkey = "m1" /\ fn_result[i].uid = 1
    /\ \E i \in 1 .. Len(fn_result) :
         fn_result[i].hotkey = "x1" /\ fn_result[i].uid = 0
    /\ \E i \in 1 .. Len(fn_result) :
         fn_result[i].hotkey = "val" /\ fn_result[i].uid = 0

-----------------------------------------------------------------------------
(* Properties of the Weight Calculator, checked under SpecCalc *)

(* The record at index i has a slot id: its own uid in simulation mode, the
   registry's otherwise *)
Resolved(i) ==
    IF fn_simulation THEN fn_records[i].uid # NoneVal
    ELSE InRegistry(fn_records[i].hotkey)

SlotOfRecord(i) ==
    IF fn_simulation THEN fn_records[i].uid ELSE SlotOf(fn_records[i].hotkey)

ResolvedRecords == {i \in 1 .. Len(fn_records) : Resolved(i)}

ScoreOfRecord(i) ==
    LET t == Transforms(fn_records)
    IN  CombinedScore(t.web_successes, t.tweets, t.profiles, i)

Returned == fn_pc = "returned" /\ ~fn_result.raised

(* C10 as stated: the two arrays have the same length, which is the number
   of records with a resolved slot id, and every such record has its entry:
   its slot id with its score at the same index. *)
C10_OneEntryPerResolvedRecord ==
    Returned =>
        /\ Len(fn_result.uids) = Len(fn_result.weights)
        /\ Len(fn_result.uids) = Cardinality(ResolvedRecords)
        /\ \A i \in ResolvedRecords :
             \E k \in 1 .. Len(fn_result.uids) :
                 /\ fn_result.uids[k] = SlotOfRecord(i)
                 /\ fn_result.weights[k] = ScoreOfRecord(i)

(* C10 as amended: the two arrays have the same length and hold one entry
   per distinct resolved slot id; weights[k] is the score of the last record,
   in input order, whose slot id is uids[k]. *)
C10_OneEntryPerResolvedSlot ==
    Returned =>
        /\ Len(fn_result.uids) = Len(fn_result.weights)
        /\ \A k, l \in 1 .. Len(fn_result.uids) :
             k # l => fn_result.uids[k] # fn_result.uids[l]
        /\ {fn_result.uids[k] : k \in 1 .. Len(fn_result.uids)}
             = {SlotOfRecord(i) : i \in ResolvedRecords}
        /\ \A k \in 1 .. Len(fn_result.uids) :
             LET of == {i \in ResolvedRecords : SlotOfRecord(i) = fn_result.uids[k]}
                 last == CHOOSE i \in of : \A j \in of : j <= i
             IN  fn_result.weights[k] = ScoreOfRecord(last)

(* Two records of slot id 0 with different scores and one of slot id 1 *)
C10_Witness ==
    /\ Returned
    /\ fn_simulation
    /\ Len(fn_records) = 3
    /\ fn_records[1].uid = 0
    /\ fn_records[2].uid = 1
    /\ fn_records[3].uid = 0
    /\ ScoreOfRecord(1) # ScoreOfRecord(3)
    /\ ScoreOfRecord(2) # ScoreOfRecord(3)
    /\ Len(fn_result.uids) = 2

(* C27: the uids returned by calculate_weights hold no value twice; there
   are as many of them as distinct slot ids among the resolved records, which
   is at most the number of resolved records, and the weight of a slot id is
   the score of the last record, in input order, that resolved to it. *)
C27_NoDuplicateSlotLastWins ==
    Returned =>
        /\ Cardinality({fn_result.uids[k] : k \in 1 .. Len(fn_result.uids)})
             = Len(fn_result.uids)
        /\ Len(fn_result.uids) = Cardinality({SlotOfRecord(i) : i \in ResolvedRecords})
        /\ Len(fn_result.uids) <= Cardinality(ResolvedRecords)
        /\ \A i \in ResolvedRecords :
             (\A j \in ResolvedRecords : SlotOfRecord(j) = SlotOfRecord(i) => j <= i) =>
                \E k \in 1 .. Len(fn_result.uids) :
                    /\ fn_result.uids[k] = SlotOfRecord(i)
                    /\ fn_result.weights[k] = ScoreOfRecord(i)

(* Simulation mode, two records of different hotkeys that both carry uid 0:
   one entry, with the score of the second *)
C27_Witness ==
    /\ Returned
    /\ fn_simulation
    /\ Len(fn_records) = 2
    /\ fn_records[1].hotkey # fn_records[2].hotkey
    /\ fn_records[1].uid = 0
    /\ fn_records[2].uid = 0
    /\ ScoreOfRecord(1) # ScoreOfRecord(2)
    /\ fn_result.uids = <<0>>
    /\ fn_result.weights = <<ScoreOfRecord(2)>>

(* The hotkeys of the records the registry knows, in input order *)
KnownHotkeys ==
    LET known == SelectSeq(fn_records, LAMBDA r : InRegistry(r.hotkey))
    IN  [i \in 1 .. Len(known) |-> known[i].hotkey]

ReportedHotkeys ==
    [j \in 1 .. Len(fn_result.reports) |-> fn_result.reports[j].hotkey]

(* C11: in non-simulation mode a record whose hotkey is not in the registry
   sends no score report and adds no entry to the output, while every record
   whose hotkey is in the registry is reported, in input order, and has its
   slot id in the output; when an exception leaves the call it is one raised
   by a score report, never the failed lookup. *)
C11_UnknownHotkeySkipped ==
    (fn_pc = "returned" /\ ~fn_simulation) =>
        /\ \A j \in 1 .. Len(fn_result.reports) :
             InRegistry(fn_result.reports[j].hotkey)
        /\ ~fn_result.raised =>
             /\ ReportedHotkeys = KnownHotkeys
             /\ {fn_result.uids[k] : k \in 1 .. Len(fn_result.uids)}
                  = {SlotOf(KnownHotkeys[i]) : i \in 1 .. Len(KnownHotkeys)}
             /\ Len(fn_result.weights) = Len(fn_result.uids)
        /\ fn_result.raised =>
             /\ fn_result.reports # <<>>
             /\ ReportedHotkeys = SubSeq(KnownHotkeys, 1, Len(fn_result.reports))

(* x1 is not in the registry: its record is skipped, the records of m1
   before and after it are scored *)
C11_Witness ==
    /\ fn_pc = "returned"
    /\ ~fn_simulation
    /\ ~fn_result.raised
    /\ Len(fn_records) = 3
    /\ fn_records[1].hotkey = "m1"
    /\ fn_records[2].hotkey = "x1"
    /\ fn_records[3].hotkey = "m1"
    /\ ~InRegistry("x1")
    /\ fn_result.uids = <<1>>
    /\ Len(fn_result.reports) = 2

(* C12 as stated: a call with simulation = TRUE looks no hotkey up in the
   registry and sends no score report. *)
C12_SimulationReadOnly ==
    (fn_pc = "returned" /\ fn_simulation) =>
        /\ fn_result.lookups = <<>>
        /\ fn_result.reports = <<>>

(* C13 as stated: whatever a score report raises, calculate_weights returns
   the entries of every resolved slot id and nothing is raised to the
   caller. *)
C13_ReportFailureContained ==
    fn_pc = "returned" =>
        /\ ~fn_result.raised
        /\ {fn_result.uids[k] : k \in 1 .. Len(fn_result.uids)}
             = {SlotOfRecord(i) : i \in ResolvedRecords}

(* C14: on an empty sequence of records calculate_weights returns ([], [])
   in both modes, and has called neither apply_kurtosis_custom nor the
   registry nor send_score_report; on a non-empty one it has called
   apply_kurtosis_custom three times. *)
C14_EmptyInput ==
    fn_pc = "returned" =>
        /\ fn_records = <<>> =>
             /\ ~fn_result.raised
             /\ fn_result.uids = <<>>
             /\ fn_result.weights = <<>>
             /\ fn_result.transforms = 0
             /\ fn_result.lookups = <<>>
             /\ fn_result.reports = <<>>
        /\ fn_records # <<>> => fn_result.transforms = 3

C14_Witness ==
    /\ fn_pc = "returned"
    /\ fn_records = <<>>
    /\ fn_simulation
    /\ fn_result.uids = <<>>
    /\ fn_result.weights = <<>>

(* The weight w is the mean, rounded to the fixed point, of the three
   arrays of t at index i *)
IsMeanAt(w, t, i) ==
    w = (2 * (t.web_successes[i] + t.tweets[i] + t.profiles[i]) + 3) \div 6

WeightsAreMeans(t) ==
    \A k \in 1 .. Len(fn_result.weights) :
        /\ 0 <= fn_result.weights[k]
        /\ fn_result.weights[k] <= Scale
        /\ \E i \in ResolvedRecords :
             /\ SlotOfRecord(i) = fn_result.uids[k]
             /\ IsMeanAt(fn_result.weights[k], t, i)

(* C15: every weight calculate_weights returns lies in [0, 1] and is the
   unweighted mean of the three transformed metric values at the index of a
   record resolved to the weight's slot id. *)
C15_WeightIsMeanInUnitInterval ==
    Returned =>
        /\ Len(fn_result.weights) = Len(fn_result.uids)
        /\ WeightsAreMeans(Transforms(fn_records))

(* Transformed values (1, 0, 0) and (0, 1, 1): means 1/3 and 2/3 *)
C15_Witness ==
    /\ Returned
    /\ fn_simulation
    /\ fn_records = <<NodeData("m1", 1, 0, 10, 0, 0), NodeData("x1", 0, 0, 5, 3, 1)>>
    /\ fn_result.uids = <<0, 1>>
    /\ fn_result.weights = <<667, 333>>

-----------------------------------------------------------------------------
(* Properties of the Score Transform, checked under SpecTransform *)

MaximalInputs == {i \in 1 .. Len(fn_x) : \A j \in 1 .. Len(fn_x) : fn_x[j] <= fn_x[i]}

(* C17: for an input of length >= 1, negative values included, the output
   of apply_kurtosis_custom has the length of the input, every element lies
   in [0, 1], and the elements are in the order of the input: equal inputs
   have equal outputs and a greatest input has a greatest output. *)
C17_OutputInUnitInterval ==
    (fn_pc = "returned" /\ Len(fn_x) >= 1) =>
        /\ Len(fn_result) = Len(fn_x)
        /\ \A i \in 1 .. Len(fn_result) : 0 <= fn_result[i] /\ fn_result[i] <= Scale
        /\ \A i, j \in 1 .. Len(fn_x) : fn_x[i] = fn_x[j] => fn_result[i] = fn_result[j]
        /\ \A i \in MaximalInputs : \A j \in 1 .. Len(fn_x) : fn_result[j] <= fn_result[i]

(* An input with negative values and an output strictly inside (0, 1) *)
C17_Witness ==
    /\ fn_pc = "returned"
    /\ Len(fn_x) = 4
    /\ fn_x[1] < 0
    /\ fn_x[2] > 0
    /\ fn_x[3] < fn_x[1]
    /\ fn_result[3] = 0
    /\ fn_result[2] = Scale
    /\ 0 < fn_result[1]
    /\ fn_result[1] < Scale

AllEqualNonZero == Len(fn_x) >= 1 /\ fn_x[1] # 0 /\ \A i \in 1 .. Len(fn_x) : fn_x[i] = fn_x[1]

(* C18: for an input whose values are all equal and not 0, a single value
   included, every element is in the top percentile mask and every element of
   the output is 0. *)
C18_EqualValuesCollapse ==
    (fn_pc = "returned" /\ AllEqualNonZero) =>
        /\ Len(fn_result) = Len(fn_x)
        /\ \A i \in 1 .. Len(fn_x) : 100 * fn_x[i] >= Threshold100(SortedAsc(fn_x))
        /\ \A i \in 1 .. Len(fn_result) : fn_result[i] = 0

C18_Witness ==
    /\ fn_pc = "returned"
    /\ fn_x = <<5, 5, 5>>
    /\ fn_result = <<0, 0, 0>>

-----------------------------------------------------------------------------
(* Properties of the Weight Calculator on three nodes, checked under
   SpecRank *)

WebSuccess == [i \in 1 .. Len(fn_records) |-> fn_records[i].web_success]

ThirdOfWebSuccess(t) ==
    /\ t.tweets = <<0, 0, 0>>
    /\ t.profiles = <<0, 0, 0>>
    /\ \A k \in 1 .. 3 : fn_result.weights[k] = (2 * t.web_successes[k] + 3) \div 6

(* C19: for three nodes whose tweets and profiles deltas are all 0, the
   transforms of tweets and of profiles are [0, 0, 0] and each weight is one
   third of the transform of the node's web_success; for web_success
   [10, 0, 5] the weight at index 0 is strictly the highest, then index 2,
   then index 1. *)
C19_WebSuccessRanking ==
    Returned =>
        /\ fn_result.uids = <<0, 1, 2>>
        /\ ThirdOfWebSuccess(Transforms(fn_records))
        /\ WebSuccess = <<10, 0, 5>> =>
             /\ fn_result.weights[1] > fn_result.weights[3]
             /\ fn_result.weights[3] > fn_result.weights[2]

(* The transform of [10, 0, 5] is [1, 0, 0.27] *)
C19_Witness ==
    /\ Returned
    /\ ~fn_simulation
    /\ WebSuccess = <<10, 0, 5>>
    /\ fn_result.uids = <<0, 1, 2>>
    /\ fn_result.weights = <<333, 0, 90>>

-----------------------------------------------------------------------------
(* Properties of the delta records, checked under SpecDelta *)

(* The first snapshot of s, in store order, with the greatest timestamp *)
LatestIndex(s) ==
    CHOOSE i \in 1 .. Len(s) :
        /\ \A j \in 1 .. Len(s) : s[j].timestamp <= s[i].timestamp
        /\ \A j \in 1 .. i - 1 : s[j].timestamp < s[i].timestamp

(* The last snapshot of s, in store order, with the least timestamp *)
OldestIndex(s) ==
    CHOOSE i \in 1 .. Len(s) :
        /\ \A j \in 1 .. Len(s) : s[j].timestamp >= s[i].timestamp
        /\ \A j \in i + 1 .. Len(s) : s[j].timestamp > s[i].timestamp

IsDeltaBetween(r, latest, oldest) ==
    /\ r.uid = latest.uid
    /\ r.timestamp = latest.timestamp
    /\ r.web_success = latest.web_success - oldest.web_success
    /\ r.twitter_returned_tweets
         = latest.twitter_returned_tweets - oldest.twitter_returned_tweets
    /\ r.twitter_returned_profiles
         = latest.twitter_returned_profiles - oldest.twitter_returned_profiles

(* C20: the record of a hotkey with 2 or more snapshots holds latest -
   oldest for each counter, negative differences included, and the timestamp
   and uid of latest; latest is the first snapshot in store order with the
   greatest timestamp and oldest the last one in store order with the least
   timestamp. *)
C20_DeltaIsLatestMinusOldest ==
    fn_pc = "returned" =>
        /\ \A h \in Hotkeys :
             Len(telemetry[h]) >= 2 => \E i \in 1 .. Len(fn_result) : fn_result[i].hotkey = h
        /\ \A i \in 1 .. Len(fn_result) :
             LET s == telemetry[fn_result[i].hotkey]
             IN  Len(s) >= 2 =>
                     IsDeltaBetween(fn_result[i], s[LatestIndex(s)], s[OldestIndex(s)])

(* Two snapshots share the greatest timestamp and the counters went down *)
C20_Witness ==
    /\ fn_pc = "returned"
    /\ telemetry["x1"] = <<Snapshot("x1", 0, 2, <<5, 3, 0>>),
                           Snapshot("x1", 2, 2, <<10, 3, 4>>),
                           Snapshot("x1", 2, 1, <<10, 3, 4>>)>>
    /\ \E i \in 1 .. Len(fn_result) :
         fn_result[i] = NodeData("x1", 0, 2, 0 - 5, 0, 0 - 4)

(* C24: a hotkey that has snapshots and no registry node has exactly one
   record in the output of the Delta Engine: with fewer than 2 snapshots the
   zero record with uid 0, with 2 or more a record whose uid and timestamp
   are those of the latest snapshot and whose counters are latest - oldest. *)
C24_TelemetryOnlyGetsOneRecord ==
    fn_pc = "returned" =>
        \A h \in Hotkeys :
            (Len(telemetry[h]) > 0 /\ \A k \in 1 .. Len(nodes) : nodes[k].hotkey # h) =>
                /\ Cardinality({i \in 1 .. Len(fn_result) : fn_result[i].hotkey = h}) = 1
                /\ \A i \in 1 .. Len(fn_result) :
                     fn_result[i].hotkey = h =>
                        IF Len(telemetry[h]) < 2
                        THEN fn_result[i] = [hotkey |-> h, uid |-> 0, timestamp |-> 0,
                                             web_success |-> 0,
                                             twitter_returned_tweets |-> 0,
                                             twitter_returned_profiles |-> 0]
                        ELSE /\ fn_result[i].uid
                                  = telemetry[h][LatestIndex(telemetry[h])].uid
                             /\ fn_result[i].timestamp
                                  = telemetry[h][LatestIndex(telemetry[h])].timestamp
                             /\ fn_result[i].web_success
                                  = telemetry[h][LatestIndex(telemetry[h])].web_success
                                    - telemetry[h][OldestIndex(telemetry[h])].web_success

(* Neither m1 nor x1 is in the registry; m1 has one snapshot, x1 has several
   and its latest one carries the uid 2 *)
C24_Witness ==
    /\ fn_pc = "returned"
    /\ \A k \in 1 .. Len(nodes) : nodes[k].hotkey = "val"
    /\ Len(telemetry["m1"]) = 1
    /\ telemetry["m1"][1].uid = 2
    /\ Len(telemetry["x1"]) >= 2
    /\ \E i \in 1 .. Len(fn_result) :
         /\ fn_result[i].hotkey = "m1"
         /\ fn_result[i].uid = 0
    /\ \E i \in 1 .. Len(fn_result) :
         /\ fn_result[i].hotkey = "x1"
         /\ fn_result[i].uid = 2
         /\ fn_result[i].web_success # 0

-----------------------------------------------------------------------------
(* Properties of the Delta Engine on raw snapshots, checked under SpecRaw *)

(* C25 as stated: whatever the timestamps and counters of the snapshots, the
   Delta Engine returns and its output holds a record for the hotkey of the
   affected snapshots and for every other hotkey of the store and of the
   registry. *)
C25_MalformedDataTolerated ==
    fn_pc = "returned" =>
        /\ ~fn_result.raised
        /\ \A h \in Hotkeys :
             (Len(telemetry[h]) > 0 \/ \E k \in 1 .. Len(nodes) : nodes[k].hotkey = h) =>
                \E i \in 1 .. Len(fn_result.records) : fn_result.records[i].hotkey = h

-----------------------------------------------------------------------------
(* Properties of two overlapping invocations, checked under SpecOverlap *)

(* C22: an invocation has a score report in flight only while it is suspended
   in the await of that report, and never more than one; when it has returned
   (DONE or FAILED) or an exception has left it, none of its reports is in
   flight, and every report it sent is in its log. *)
C22_NoReportInFlightAtReturn ==
    \A self \in Tasks :
        /\ tasks[self].in_flight \in {0, 1}
        /\ tasks[self].in_flight = 1 <=> tasks[self].pc = "REPORTING"
        /\ tasks[self].pc \in {"DONE", "FAILED", "RAISED"} => tasks[self].in_flight = 0
        /\ tasks[self].submissions # <<>> =>
             /\ tasks[self].in_flight = 0
             /\ Len(tasks[self].st.reports) = Len(tasks[self].uids)

(* The first invocation has returned after two completed reports while a
   report of the second is still in flight *)
C22_Witness ==
    /\ tasks[1].pc = "DONE"
    /\ Len(tasks[1].st.reports) = 2
    /\ tasks[1].in_flight = 0
    /\ tasks[2].pc = "REPORTING"
    /\ tasks[2].in_flight = 1

(* C30: a step of one invocation changes no local of the other; each
   invocation checks the interval once, against the ledger as it is at that
   moment, and calls set_node_weights at most 3 times; the handle of each
   submission is the value validator.substrate has at the call, which is the
   handle of the latest get_substrate call of either invocation. *)
C30_InvocationsIndependent ==
    /\ [][\A a, b \in Tasks :
            a # b => (tasks'[a] = tasks[a] \/ tasks'[b] = tasks[b])]_vars
    /\ [](\A self \in Tasks :
            /\ tasks[self].checks <= 1
            /\ tasks[self].attempt <= 2
            /\ Len(tasks[self].submissions) <= 3
            /\ tasks[self].pc = "INTERVAL_SLEEP" =>
                 tasks[self].blocks_since_update < tasks[self].min_interval
            /\ \A i \in 1 .. Len(tasks[self].submissions) :
                 /\ tasks[self].submissions[i].substrate
                      = tasks[self].submissions[i].refreshes
                 /\ tasks[self].submissions[i].substrate >= tasks[self].acquired
                 /\ tasks[self].submissions[i].substrate <= substrate)

(* Both invocations passed their own interval check without waiting; the
   first submitted with the handle the second had acquired and was accepted,
   and the second then submitted 0 blocks after that update, inside the
   minimum interval *)
C30_Witness ==
    /\ tasks[1].checks = 1
    /\ tasks[2].checks = 1
    /\ tasks[1].blocks_since_update >= tasks[1].min_interval
    /\ tasks[2].blocks_since_update >= tasks[2].min_interval
    /\ tasks[1].acquired = 1
    /\ tasks[2].acquired = 2
    /\ tasks[1].pc = "DONE"
    /\ tasks[1].submissions[1].substrate = 2
    /\ tasks[1].submissions[1].result = "True"
    /\ tasks[2].pc = "DONE"
    /\ tasks[2].submissions[1].since = 0
    /\ tasks[2].submissions[1].since < ledger.min_interval
    /\ tasks[2].submissions[1].result = "True"

-----------------------------------------------------------------------------
(* Properties of the final sort of calculate_weights, checked under SpecSort *)

(* The number a uid stands for: the integer itself, or the one its digits
   write in base 10 *)
NumericValue(x) ==
    IF x.isstr
    THEN IF Len(x.text) = 1 THEN x.text[1] ELSE 10 * x.text[1] + x.text[2]
    ELSE x.int

(* C21: the uids returned are in ascending numeric order, a string of digits
   counting as the integer it writes; they are the uids of miner_scores, each
   once, and weights[k] is the score of uids[k], whatever the order in which
   the uids were put into miner_scores. *)
C21_SortedAscendingAligned ==
    fn_pc = "returned" =>
        /\ Len(fn_result.uids) = Len(fn_records)
        /\ Len(fn_result.weights) = Len(fn_records)
        /\ \A k, l \in 1 .. Len(fn_result.uids) :
             k < l => NumericValue(fn_result.uids[k]) <= NumericValue(fn_result.uids[l])
        /\ \A i \in 1 .. Len(fn_records) :
             \E k \in 1 .. Len(fn_result.uids) :
                 /\ fn_result.uids[k] = fn_records[i].uid
                 /\ fn_result.weights[k] = fn_records[i].score

(* "10", "9", "2" inserted in this order come out as "2", "9", "10" with
   their scores *)
C21_Witness ==
    /\ fn_pc = "returned"
    /\ fn_records = <<[uid |-> StrUid(<<1, 0>>), score |-> 333],
                      [uid |-> StrUid(<<9>>), score |-> 0],
                      [uid |-> StrUid(<<2>>), score |-> Scale]>>
    /\ fn_result.uids = <<StrUid(<<2>>), StrUid(<<9>>), StrUid(<<1, 0>>)>>
    /\ fn_result.weights = <<Scale, 0, 333>>

=============================================================================
